---- MODULE Spec2Model ----
(***************************************************************************)
(* Model of tdnet_xbrl_downloader.py: the paginated listing crawler        *)
(* (fetch_all_pages_xbrl / fetch_xbrl_list) and the comprehensive          *)
(* aggregator (extract_comprehensive_financial_data and its helpers).      *)
(***************************************************************************)
EXTENDS Integers, Sequences, FiniteSets, TLC

(***************************************************************************)
(* Bounds of the model.                                                    *)
(***************************************************************************)
\* table rows the portal serves during one crawl, over all listing pages
MaxRows == 3
\* distinct XBRL package URLs
MaxUrl == 2
\* strings of page 1 that match the count-banner search pattern
MaxBanners == 2

\* tagged elements of one filing, over its Summary and Attachment documents
MaxElems == 2
\* documents in one Attachment directory
MaxFiles == 1

(***************************************************************************)
(* Program constants.                                                      *)
(***************************************************************************)
\* disclosures per listing page, (total_count + 99) // 100
PageSize == 100
\* total_pages = 20 when the total count is not available
FallbackPages == 20

SeqsUpTo(S, n) == UNION {[1..k -> S] : k \in 0..n}

(***************************************************************************)
(* The portal.  A table row is the URL number of its kjXbrl link, or       *)
(* NoLink when the row has no such link.                                   *)
(***************************************************************************)
NoLink == 0
Urls == 1..MaxUrl
Rows == Urls \cup {NoLink}

\* what requests.get + raise_for_status gives for a listing page
\* (status 2xx with a table of rows, 404, or another transport failure), when
\* the portal has served `served` rows so far
Responses(served) ==
    {[kind |-> "ok", rows |-> rs] : rs \in SeqsUpTo(Rows, MaxRows - served)} \cup
    {[kind |-> k, rows |-> <<>>] : k \in {"notfound", "error"}}

\* the strings of page 1 found by the count pattern: each carries the number
\* of its first "全n件", or NoMatch when it has none
NoMatch == -1
Counts == {0, 100, 101, 1048}
BannerResponses ==
    {[ok |-> FALSE, patterns |-> <<>>]} \cup
    {[ok |-> TRUE, patterns |-> ps] : ps \in SeqsUpTo(Counts \cup {NoMatch}, MaxBanners)}

(***************************************************************************)
(* fetch_xbrl_list: one record per row that has an XBRL link; [] on any    *)
(* RequestException.  The fields copied from the row other than xbrl_url   *)
(* (time, code, name, title, pdf_url, place, history) are determined by    *)
(* the row, which the record names by page and row number.                 *)
(***************************************************************************)
RowRecords(rows, p) ==
    [i \in 1..Len(rows) |-> [xbrl_url |-> rows[i], page |-> p, row |-> i]]

HasXbrl(r) == r.xbrl_url # NoLink

fetch_xbrl_list(resp, p) ==
    IF resp.kind # "ok" THEN <<>>
    ELSE SelectSeq(RowRecords(resp.rows, p), HasXbrl)

(***************************************************************************)
(* Total count and page count from the banner (lines 313-342).             *)
(***************************************************************************)
RECURSIVE TotalCount(_)
TotalCount(patterns) ==
    IF patterns = <<>> THEN 0
    ELSE IF Head(patterns) # NoMatch THEN Head(patterns)
    ELSE TotalCount(Tail(patterns))

\* mutant: the division rounds down
CeilPages_Floor(n) == n \div PageSize

CeilPages(n) == (n + (PageSize - 1)) \div PageSize

TotalPages(b) ==
    IF ~b.ok THEN FallbackPages
    ELSE IF TotalCount(b.patterns) > 0 THEN CeilPages(TotalCount(b.patterns))
    ELSE FallbackPages

(***************************************************************************)
(* Deduplication by xbrl_url, first occurrence kept (lines 385-396).       *)
(***************************************************************************)
UrlsOf(recs) == {recs[i].xbrl_url : i \in 1..Len(recs)}

RECURSIVE DedupFrom(_, _, _)
DedupFrom(recs, seen, acc) ==
    IF recs = <<>> THEN acc
    ELSE LET r == Head(recs) IN
         IF r.xbrl_url # NoLink /\ r.xbrl_url \notin seen
         THEN DedupFrom(Tail(recs), seen \cup {r.xbrl_url}, Append(acc, r))
         ELSE DedupFrom(Tail(recs), seen, acc)

\* mutant: unique_urls is never added to, nothing is dropped
DedupRecords_NoAdd(recs) == SelectSeq(recs, HasXbrl)

DedupRecords(recs) == DedupFrom(recs, {}, <<>>)

RECURSIVE CountDupFrom(_, _)
CountDupFrom(recs, seen) ==
    IF recs = <<>> THEN 0
    ELSE LET r == Head(recs) IN
         IF r.xbrl_url # NoLink /\ r.xbrl_url \notin seen
         THEN CountDupFrom(Tail(recs), seen \cup {r.xbrl_url})
         ELSE (IF r.xbrl_url # NoLink THEN 1 ELSE 0) + CountDupFrom(Tail(recs), seen)

DuplicatesRemoved(recs) == CountDupFrom(recs, {})

\* actual_pages = page - 1 if page > 1 else 1
ActualPages(p) == IF p > 1 THEN p - 1 ELSE 1

\* the value handed to the caller: a bare list, no flag accompanies it
Returned(recs) == [records |-> recs, partial |-> FALSE]

(***************************************************************************)
(* Text.  A string is a sequence of characters; a character outside ASCII  *)
(* is written by its code point.                                           *)
(***************************************************************************)
Nen == "U+5E74"
Gatsu == "U+6708"
Nichi == "U+65E5"
FwDash == "U+FF0D"
FwSlash == "U+FF0F"
FwSpace == "U+3000"
Digits == <<"0", "1", "2", "3", "4", "5", "6", "7", "8", "9">>
FwDigits == <<"U+FF10", "U+FF11", "U+FF12", "U+FF13", "U+FF14",
              "U+FF15", "U+FF16", "U+FF17", "U+FF18", "U+FF19">>
Whitespace == {" ", "\t", "\n", FwSpace}

IsDigit(c) == \E i \in 1..10 : Digits[i] = c
DigitVal(c) == (CHOOSE i \in 1..10 : Digits[i] = c) - 1
AllDigits(s) == \A i \in 1..Len(s) : IsDigit(s[i])

RECURSIVE LStrip(_)
LStrip(s) == IF s # <<>> /\ Head(s) \in Whitespace THEN LStrip(Tail(s)) ELSE s

RECURSIVE RStrip(_)
RStrip(s) ==
    IF s # <<>> /\ s[Len(s)] \in Whitespace THEN RStrip(SubSeq(s, 1, Len(s) - 1)) ELSE s

\* str.strip()
Strip(s) == RStrip(LStrip(s))

IsComma(c) == c = ","
NotComma(c) == c # ","
NotWhitespace(c) == c \notin Whitespace
IsHyphen(c) == c = "-"

\* mutant: the separators stay in the text
RemoveCommas_Keep(s) == s

\* str.replace(',', '')
RemoveCommas(s) == SelectSeq(s, NotComma)

\* re.sub(r'\s+', '', value)
RemoveWhitespace(s) == SelectSeq(s, NotWhitespace)

Contains(s, c) == \E i \in 1..Len(s) : s[i] = c

\* unicodedata.normalize('NFKC', .) of one character
NFKCChar(c) ==
    IF \E i \in 1..10 : FwDigits[i] = c
    THEN Digits[CHOOSE i \in 1..10 : FwDigits[i] = c]
    ELSE IF c = FwDash THEN "-"
    ELSE IF c = FwSlash THEN "/"
    ELSE IF c = FwSpace THEN " "
    ELSE c

NFKC(s) == [i \in 1..Len(s) |-> NFKCChar(s[i])]

\* value of a sequence of ASCII digits
RECURSIVE DigitsValue(_)
DigitsValue(s) ==
    IF s = <<>> THEN 0
    ELSE 10 * DigitsValue(SubSeq(s, 1, Len(s) - 1)) + DigitVal(s[Len(s)])

(***************************************************************************)
(* Values of a mapping: a number, a string, or None.                       *)
(***************************************************************************)
Num(n) == [kind |-> "num", n |-> n, s |-> <<>>]
Str(s) == [kind |-> "str", n |-> 0, s |-> s]
NoneVal == [kind |-> "none", n |-> 0, s |-> <<>>]

\* a full-width digit counts as its ASCII digit in float()
DecimalChar(c) ==
    IF \E i \in 1..10 : FwDigits[i] = c
    THEN Digits[CHOOSE i \in 1..10 : FwDigits[i] = c]
    ELSE c

\* float(text): surrounding whitespace is dropped, then an optional sign and
\* decimal digits.  Fractions and exponents are outside the texts of this model.
ParseFloat(t) ==
    LET u == Strip(t)
        signed == u # <<>> /\ u[1] \in {"-", "+"}
        body == IF signed THEN Tail(u) ELSE u
        d == [i \in 1..Len(body) |-> DecimalChar(body[i])]
    IN IF body # <<>> /\ AllDigits(d)
       THEN [ok |-> TRUE,
             n |-> IF signed /\ u[1] = "-" THEN 0 - DigitsValue(d) ELSE DigitsValue(d)]
       ELSE [ok |-> FALSE, n |-> 0]

\* _parse_financial_value (lines 1246-1273)
parse_financial_value(elem) ==
    LET text_value == RemoveCommas(Strip(elem.text)) IN
    IF text_value = <<>> \/ text_value = <<FwDash>> \/ text_value = <<"-">>
    THEN NoneVal
    ELSE LET f == ParseFloat(text_value) IN
         IF ~f.ok THEN NoneVal
         ELSE Num(IF elem.sign = "-" THEN 0 - f.n ELSE f.n)

(***************************************************************************)
(* _format_date_to_iso (lines 787-836).                                    *)
(***************************************************************************)
DigitsAt(s, i, k) == i + k - 1 <= Len(s) /\ \A j \in i..(i + k - 1) : IsDigit(s[j])
CharAt(s, i, c) == i <= Len(s) /\ s[i] = c
CountOf(s, c) == Cardinality({i \in 1..Len(s) : s[i] = c})

\* mutant: no padding
ZFill2_NoPad(s) == s

\* str.zfill(2) of one or two digits
ZFill2(s) == IF Len(s) < 2 THEN <<"0">> \o s ELSE s

\* length of the \d{1,2} that is followed by character c at position i, 0 if none
OneOrTwoDigits(s, i, c) ==
    IF DigitsAt(s, i, 2) /\ CharAt(s, i + 2, c) THEN 2
    ELSE IF DigitsAt(s, i, 1) /\ CharAt(s, i + 1, c) THEN 1
    ELSE 0

\* re.match(r'(\d{4})年(\d{1,2})月(\d{1,2})日', s): the groups, or ok = FALSE
JapaneseDateMatch(s) ==
    LET ml == OneOrTwoDigits(s, 6, Gatsu)
        dl == OneOrTwoDigits(s, 7 + ml, Nichi)
    IN IF DigitsAt(s, 1, 4) /\ CharAt(s, 5, Nen) /\ ml > 0 /\ dl > 0
       THEN [ok |-> TRUE, year |-> SubSeq(s, 1, 4), month |-> SubSeq(s, 6, 5 + ml),
             day |-> SubSeq(s, 7 + ml, 6 + ml + dl)]
       ELSE [ok |-> FALSE, year |-> <<>>, month |-> <<>>, day |-> <<>>]

IsLeap(y) == (y % 4 = 0 /\ y % 100 # 0) \/ y % 400 = 0
DaysInMonth(y, m) ==
    IF m = 2 THEN (IF IsLeap(y) THEN 29 ELSE 28)
    ELSE IF m \in {4, 6, 9, 11} THEN 30 ELSE 31

\* the strptime directives %m and %d: lengths of the text they can take at i
MonthLens(s, i) ==
    {k \in {1, 2} : DigitsAt(s, i, k) /\ DigitsValue(SubSeq(s, i, i + k - 1)) \in 1..12
                    /\ (k = 1 => s[i] # "0")}
DayLens(s, i) ==
    {k \in {1, 2} : DigitsAt(s, i, k) /\ DigitsValue(SubSeq(s, i, i + k - 1)) \in 1..31
                    /\ (k = 1 => s[i] # "0")}

\* the (year, month, day) splits of s as A sep B sep C, where year is four
\* digits and comes first (yearFirst) or last
StrptimeParses(s, sep, yearFirst) ==
    IF yearFirst
    THEN {[y |-> DigitsValue(SubSeq(s, 1, 4)),
           m |-> DigitsValue(SubSeq(s, 6, 5 + ml)),
           d |-> DigitsValue(SubSeq(s, 7 + ml, 6 + ml + dl))] :
             <<ml, dl>> \in {p \in {1, 2} \X {1, 2} :
                 /\ DigitsAt(s, 1, 4) /\ CharAt(s, 5, sep)
                 /\ p[1] \in MonthLens(s, 6) /\ CharAt(s, 6 + p[1], sep)
                 /\ p[2] \in DayLens(s, 7 + p[1])
                 /\ Len(s) = 6 + p[1] + p[2]}}
    ELSE {[y |-> DigitsValue(SubSeq(s, 3 + ml + dl, 6 + ml + dl)),
           m |-> DigitsValue(SubSeq(s, 1, ml)),
           d |-> DigitsValue(SubSeq(s, 2 + ml, 1 + ml + dl))] :
             <<ml, dl>> \in {p \in {1, 2} \X {1, 2} :
                 /\ p[1] \in MonthLens(s, 1) /\ CharAt(s, 1 + p[1], sep)
                 /\ p[2] \in DayLens(s, 2 + p[1]) /\ CharAt(s, 2 + p[1] + p[2], sep)
                 /\ DigitsAt(s, 3 + p[1] + p[2], 4)
                 /\ Len(s) = 6 + p[1] + p[2]}}

ValidDate(t) == t.y >= 1 /\ t.d <= DaysInMonth(t.y, t.m)

\* datetime.strptime(s, fmt) for fmt number f of
\* ['%Y/%m/%d', '%Y.%m.%d', '%Y-%m-%d', '%m/%d/%Y']: the dates it gives
Strptime(s, f) ==
    {t \in StrptimeParses(s, <<"/", ".", "-", "/">>[f], f # 4) : ValidDate(t)}

Digit2(n) == <<Digits[(n \div 10) + 1], Digits[(n % 10) + 1]>>
Digit4(n) == Digit2(n \div 100) \o Digit2(n % 100)

\* dt.strftime('%Y-%m-%d')
Strftime(t) == Digit4(t.y) \o <<"-">> \o Digit2(t.m) \o <<"-">> \o Digit2(t.d)

RECURSIVE TryFormats(_, _)
TryFormats(s, f) ==
    IF f > 4 THEN s
    ELSE IF Strptime(s, f) # {} THEN Strftime(CHOOSE t \in Strptime(s, f) : TRUE)
    ELSE TryFormats(s, f + 1)

format_date_to_iso(date_str) ==
    IF date_str = <<>> THEN <<>>
    ELSE LET normalized_str == NFKC(Strip(date_str))
             jm == JapaneseDateMatch(normalized_str)
         IN IF Len(normalized_str) = 10 /\ CountOf(normalized_str, "-") = 2
            THEN normalized_str
            ELSE IF Len(normalized_str) = 8 /\ AllDigits(normalized_str)
            THEN SubSeq(normalized_str, 1, 4) \o <<"-">> \o SubSeq(normalized_str, 5, 6)
                 \o <<"-">> \o SubSeq(normalized_str, 7, 8)
            ELSE IF jm.ok
            THEN jm.year \o <<"-">> \o ZFill2(jm.month) \o <<"-">> \o ZFill2(jm.day)
            ELSE TryFormats(normalized_str, 1)

(***************************************************************************)
(* Tagged documents.  An element has a qualified name, a context           *)
(* reference, a sign attribute and its text.  A context reference is the   *)
(* concatenation year + period + member, so that "'CurrentYear' in         *)
(* context" is year = "CurrentYear" and an exact match is equality.        *)
(***************************************************************************)
Tag(ns, local) == [ns |-> ns, local |-> local]
Ctx(year, period, member) == [year |-> year, period |-> period, member |-> member]
Elem(name, ctx, sign, text) == [name |-> name, contextref |-> ctx, sign |-> sign, text |-> text]
\* kind: how the section stores the item ("num", "date": 'date' in key or
\* fiscal_year_end, "text": new_subsidiaries_names)
Item(key, name, ctx, kind) == [key |-> key, name |-> name, ctx |-> ctx, kind |-> kind]

Consolidated == "_ConsolidatedMember_ResultMember"
NonConsolidated == "_NonConsolidatedMember_ResultMember"

\* lines 917-930
income_items == {
    Item("net_sales_current", Tag("tse-ed-t", "NetSales"), Ctx("CurrentYear", "Duration", Consolidated), "num"),
    Item("net_sales_prior", Tag("tse-ed-t", "NetSales"), Ctx("PriorYear", "Duration", Consolidated), "num"),
    Item("operating_income_current", Tag("tse-ed-t", "OperatingIncome"), Ctx("CurrentYear", "Duration", Consolidated), "num"),
    Item("operating_income_prior", Tag("tse-ed-t", "OperatingIncome"), Ctx("PriorYear", "Duration", Consolidated), "num"),
    Item("ordinary_income_current", Tag("tse-ed-t", "OrdinaryIncome"), Ctx("CurrentYear", "Duration", Consolidated), "num"),
    Item("ordinary_income_prior", Tag("tse-ed-t", "OrdinaryIncome"), Ctx("PriorYear", "Duration", Consolidated), "num"),
    Item("profit_attributable_to_owners_current", Tag("tse-ed-t", "ProfitAttributableToOwnersOfParent"), Ctx("CurrentYear", "Duration", Consolidated), "num"),
    Item("profit_attributable_to_owners_prior", Tag("tse-ed-t", "ProfitAttributableToOwnersOfParent"), Ctx("PriorYear", "Duration", Consolidated), "num"),
    Item("comprehensive_income_current", Tag("tse-ed-t", "ComprehensiveIncome"), Ctx("CurrentYear", "Duration", Consolidated), "num"),
    Item("comprehensive_income_prior", Tag("tse-ed-t", "ComprehensiveIncome"), Ctx("PriorYear", "Duration", Consolidated), "num"),
    Item("investment_profit_loss_current", Tag("tse-ed-t", "InvestmentProfitLossOnEquityMethod"), Ctx("CurrentYear", "Duration", Consolidated), "num"),
    Item("investment_profit_loss_prior", Tag("tse-ed-t", "InvestmentProfitLossOnEquityMethod"), Ctx("PriorYear", "Duration", Consolidated), "num")
}

\* lines 954-961
balance_items == {
    Item("total_assets_current", Tag("tse-ed-t", "TotalAssets"), Ctx("CurrentYear", "Instant", Consolidated), "num"),
    Item("total_assets_prior", Tag("tse-ed-t", "TotalAssets"), Ctx("PriorYear", "Instant", Consolidated), "num"),
    Item("net_assets_current", Tag("tse-ed-t", "NetAssets"), Ctx("CurrentYear", "Instant", Consolidated), "num"),
    Item("net_assets_prior", Tag("tse-ed-t", "NetAssets"), Ctx("PriorYear", "Instant", Consolidated), "num"),
    Item("owners_equity_current", Tag("tse-ed-t", "OwnersEquity"), Ctx("CurrentYear", "Instant", Consolidated), "num"),
    Item("owners_equity_prior", Tag("tse-ed-t", "OwnersEquity"), Ctx("PriorYear", "Instant", Consolidated), "num")
}

\* lines 985-994
cf_items == {
    Item("operating_cash_flow_current", Tag("tse-ed-t", "CashFlowsFromOperatingActivities"), Ctx("CurrentYear", "Duration", Consolidated), "num"),
    Item("operating_cash_flow_prior", Tag("tse-ed-t", "CashFlowsFromOperatingActivities"), Ctx("PriorYear", "Duration", Consolidated), "num"),
    Item("investing_cash_flow_current", Tag("tse-ed-t", "CashFlowsFromInvestingActivities"), Ctx("CurrentYear", "Duration", Consolidated), "num"),
    Item("investing_cash_flow_prior", Tag("tse-ed-t", "CashFlowsFromInvestingActivities"), Ctx("PriorYear", "Duration", Consolidated), "num"),
    Item("financing_cash_flow_current", Tag("tse-ed-t", "CashFlowsFromFinancingActivities"), Ctx("CurrentYear", "Duration", Consolidated), "num"),
    Item("financing_cash_flow_prior", Tag("tse-ed-t", "CashFlowsFromFinancingActivities"), Ctx("PriorYear", "Duration", Consolidated), "num"),
    Item("cash_and_equivalents_current", Tag("tse-ed-t", "CashAndEquivalentsEndOfPeriod"), Ctx("CurrentYear", "Instant", Consolidated), "num"),
    Item("cash_and_equivalents_prior", Tag("tse-ed-t", "CashAndEquivalentsEndOfPeriod"), Ctx("PriorYear", "Instant", Consolidated), "num")
}

\* lines 1018-1034
ratio_items == {
    Item("eps_current", Tag("tse-ed-t", "NetIncomePerShare"), Ctx("CurrentYear", "Duration", Consolidated), "num"),
    Item("eps_prior", Tag("tse-ed-t", "NetIncomePerShare"), Ctx("PriorYear", "Duration", Consolidated), "num"),
    Item("bps_current", Tag("tse-ed-t", "NetAssetsPerShare"), Ctx("CurrentYear", "Instant", Consolidated), "num"),
    Item("bps_prior", Tag("tse-ed-t", "NetAssetsPerShare"), Ctx("PriorYear", "Instant", Consolidated), "num"),
    Item("roe_current", Tag("tse-ed-t", "NetIncomeToShareholdersEquityRatio"), Ctx("CurrentYear", "Duration", Consolidated), "num"),
    Item("roe_prior", Tag("tse-ed-t", "NetIncomeToShareholdersEquityRatio"), Ctx("PriorYear", "Duration", Consolidated), "num"),
    Item("roa_current", Tag("tse-ed-t", "OrdinaryIncomeToTotalAssetsRatio"), Ctx("CurrentYear", "Duration", Consolidated), "num"),
    Item("roa_prior", Tag("tse-ed-t", "OrdinaryIncomeToTotalAssetsRatio"), Ctx("PriorYear", "Duration", Consolidated), "num"),
    Item("operating_margin_current", Tag("tse-ed-t", "OperatingIncomeToNetSalesRatio"), Ctx("CurrentYear", "Duration", Consolidated), "num"),
    Item("operating_margin_prior", Tag("tse-ed-t", "OperatingIncomeToNetSalesRatio"), Ctx("PriorYear", "Duration", Consolidated), "num"),
    Item("equity_ratio_current", Tag("tse-ed-t", "CapitalAdequacyRatio"), Ctx("CurrentYear", "Instant", Consolidated), "num"),
    Item("equity_ratio_prior", Tag("tse-ed-t", "CapitalAdequacyRatio"), Ctx("PriorYear", "Instant", Consolidated), "num"),
    Item("payout_ratio_current", Tag("tse-ed-t", "PayoutRatio"), Ctx("CurrentYear", "Duration", Consolidated), "num"),
    Item("average_shares_current", Tag("tse-ed-t", "AverageNumberOfShares"), Ctx("CurrentYear", "Duration", Consolidated), "num"),
    Item("issued_shares_current", Tag("tse-ed-t", "NumberOfIssuedAndOutstandingSharesAtTheEndOfFiscalYearIncludingTreasuryStock"), Ctx("CurrentYear", "Instant", Consolidated), "num")
}

\* lines 1058-1064
dividend_items == {
    Item("dividend_per_share_current", Tag("tse-ed-t", "DividendPerShare"), Ctx("CurrentYear", "Duration", Consolidated), "num"),
    Item("total_dividend_current", Tag("tse-ed-t", "TotalDividendPaidAnnual"), Ctx("CurrentYear", "Duration", Consolidated), "num"),
    Item("shareholder_meeting_date", Tag("tse-ed-t", "DateOfGeneralShareholdersMeetingAsPlanned"), Ctx("CurrentYear", "Instant", ""), "date"),
    Item("dividend_payment_date", Tag("tse-ed-t", "DividendPayableDateAsPlanned"), Ctx("CurrentYear", "Instant", ""), "date"),
    Item("securities_report_date", Tag("tse-ed-t", "AnnualSecuritiesReportFilingDateAsPlanned"), Ctx("CurrentYear", "Instant", ""), "date")
}

\* lines 1092-1097
other_items == {
    Item("fiscal_year_end", Tag("tse-ed-t", "FiscalYearEnd"), Ctx("CurrentYear", "Instant", ""), "date"),
    Item("treasury_stock_count", Tag("tse-ed-t", "NumberOfTreasuryStockAtTheEndOfFiscalYear"), Ctx("CurrentYear", "Instant", NonConsolidated), "num"),
    Item("new_subsidiaries_count", Tag("tse-ed-t", "NumberOfSubsidiariesNewlyConsolidated"), Ctx("CurrentYear", "Duration", Consolidated), "num"),
    Item("new_subsidiaries_names", Tag("tse-ed-t", "NameOfSubsidiariesNewlyConsolidated"), Ctx("CurrentYear", "Duration", Consolidated), "text")
}

\* lines 1137-1148
detailed_items == {
    Item("cash_and_deposits_current", Tag("jppfs_cor", "CashAndDeposits"), Ctx("CurrentYear", "Instant", ""), "num"),
    Item("cash_and_deposits_prior", Tag("jppfs_cor", "CashAndDeposits"), Ctx("Prior1Year", "Instant", ""), "num"),
    Item("accounts_receivable_current", Tag("jppfs_cor", "NotesAndAccountsReceivableTradeAndContractAssets"), Ctx("CurrentYear", "Instant", ""), "num"),
    Item("accounts_receivable_prior", Tag("jppfs_cor", "NotesAndAccountsReceivableTradeAndContractAssets"), Ctx("Prior1Year", "Instant", ""), "num"),
    Item("inventory_current", Tag("jppfs_cor", "MerchandiseAndFinishedGoods"), Ctx("CurrentYear", "Instant", ""), "num"),
    Item("inventory_prior", Tag("jppfs_cor", "MerchandiseAndFinishedGoods"), Ctx("Prior1Year", "Instant", ""), "num"),
    Item("work_in_process_current", Tag("jppfs_cor", "WorkInProcess"), Ctx("CurrentYear", "Instant", ""), "num"),
    Item("work_in_process_prior", Tag("jppfs_cor", "WorkInProcess"), Ctx("Prior1Year", "Instant", ""), "num"),
    Item("raw_materials_current", Tag("jppfs_cor", "RawMaterialsAndSupplies"), Ctx("CurrentYear", "Instant", ""), "num"),
    Item("raw_materials_prior", Tag("jppfs_cor", "RawMaterialsAndSupplies"), Ctx("Prior1Year", "Instant", ""), "num")
}

\* lines 844-869: the dialects in table order
company_item_mappings == <<
    {
        [key |-> "company_name", name |-> Tag("tse-ed-t", "CompanyName")],
        [key |-> "securities_code", name |-> Tag("tse-ed-t", "SecuritiesCode")],
        [key |-> "document_name", name |-> Tag("tse-ed-t", "DocumentName")],
        [key |-> "representative_title", name |-> Tag("tse-ed-t", "TitleRepresentative")],
        [key |-> "representative_name", name |-> Tag("tse-ed-t", "NameRepresentative")],
        [key |-> "inquiries_title", name |-> Tag("tse-ed-t", "TitleInquiries")],
        [key |-> "inquiries_name", name |-> Tag("tse-ed-t", "NameInquiries")],
        [key |-> "tel", name |-> Tag("tse-ed-t", "Tel")],
        [key |-> "url", name |-> Tag("tse-ed-t", "URL")]
    },
    {
        [key |-> "company_name", name |-> Tag("tse-re-t", "IssuerNameREIT")],
        [key |-> "securities_code", name |-> Tag("tse-re-t", "SecuritiesCode")],
        [key |-> "document_name", name |-> Tag("tse-re-t", "DocumentName")],
        [key |-> "representative_title", name |-> Tag("tse-re-t", "TitleRepresentative")],
        [key |-> "representative_name", name |-> Tag("tse-re-t", "NameRepresentative")],
        [key |-> "inquiries_title", name |-> Tag("tse-re-t", "TitleInquiries")],
        [key |-> "inquiries_name", name |-> Tag("tse-re-t", "NameInquiries")],
        [key |-> "tel", name |-> Tag("tse-re-t", "Tel")],
        [key |-> "url", name |-> Tag("tse-re-t", "URL")]
    }
>>

(***************************************************************************)
(* Dictionaries.                                                           *)
(***************************************************************************)
EmptyDict == [k \in {} |-> NoneVal]
\* dict.update(e)
Update(d, e) ==
    [k \in DOMAIN d \cup DOMAIN e |-> IF k \in DOMAIN e THEN e[k] ELSE d[k]]
\* for key, value in e.items(): if key not in d: d[key] = value
AddMissing(d, e) ==
    [k \in DOMAIN d \cup DOMAIN e |-> IF k \in DOMAIN d THEN d[k] ELSE e[k]]
\* d[key] = value
Put(d, key, value) == [k \in DOMAIN d \cup {key} |-> IF k = key THEN value ELSE d[k]]

(***************************************************************************)
(* soup.find: the first element in document order, 0 when there is none.   *)
(***************************************************************************)
Min(S) == CHOOSE x \in S : \A y \in S : x <= y
FindByName(doc, name) ==
    LET hits == {i \in 1..Len(doc) : doc[i].name = name} IN
    IF hits = {} THEN 0 ELSE Min(hits)
Find(doc, name, ctx) ==
    LET hits == {i \in 1..Len(doc) : doc[i].name = name /\ doc[i].contextref = ctx} IN
    IF hits = {} THEN 0 ELSE Min(hits)

(***************************************************************************)
(* _extract_comprehensive_company_info (lines 838-908).                    *)
(***************************************************************************)
CompanyKeys == {it.key : it \in company_item_mappings[1]}

\* lines 875-891: temp_data of one dialect
TempData(doc, mapping) ==
    [k \in {it.key : it \in mapping} |->
        LET it == CHOOSE x \in mapping : x.key = k
            i == FindByName(doc, it.name)
        IN IF i = 0 THEN Str(<<>>)
           ELSE IF k = "securities_code" THEN Str(RemoveWhitespace(Strip(doc[i].text)))
           ELSE Str(Strip(doc[i].text))]

\* line 886: found_data
FoundData(doc, mapping) == \E it \in mapping : FindByName(doc, it.name) # 0

\* mutant: every dialect is tried and fills the fields still empty
RECURSIVE CompanyFrom_Mixing(_, _)
CompanyFrom_Mixing(doc, d) ==
    IF d > Len(company_item_mappings)
    THEN [k \in CompanyKeys |-> Str(<<>>)]
    ELSE LET here == TempData(doc, company_item_mappings[d])
             rest == CompanyFrom_Mixing(doc, d + 1)
         IN [k \in CompanyKeys |-> IF here[k] # Str(<<>>) THEN here[k] ELSE rest[k]]

\* lines 873-903: the first dialect with a hit, else every key ''
RECURSIVE CompanyFrom(_, _)
CompanyFrom(doc, d) ==
    IF d > Len(company_item_mappings)
    THEN [k \in CompanyKeys |-> Str(<<>>)]
    ELSE IF FoundData(doc, company_item_mappings[d])
    THEN TempData(doc, company_item_mappings[d])
    ELSE CompanyFrom(doc, d + 1)

extract_comprehensive_company_info(doc) == CompanyFrom(doc, 1)

(***************************************************************************)
(* The curated sections (lines 911-1118, 1121-1162): one entry per item    *)
(* whose element is found and whose value is kept.                         *)
(***************************************************************************)
ItemValue(doc, it) ==
    LET i == Find(doc, it.name, it.ctx) IN
    IF i = 0 THEN NoneVal
    ELSE IF it.kind = "date" THEN Str(format_date_to_iso(Strip(doc[i].text)))
    ELSE IF it.kind = "text" THEN Str(Strip(doc[i].text))
    ELSE parse_financial_value(doc[i])

Section(doc, items) ==
    [k \in {it.key : it \in {x \in items : ItemValue(doc, x) # NoneVal}} |->
        ItemValue(doc, CHOOSE x \in items : x.key = k)]

(***************************************************************************)
(* _extract_all_tse_items (lines 1276-1330).                               *)
(***************************************************************************)
\* lines 1296-1307
TseSuffix(c) ==
    IF c.year = "CurrentYear"
    THEN (IF c.period = "Duration" THEN "_current"
          ELSE IF c.period = "Instant" THEN "_currentyear" ELSE "")
    ELSE IF c.year \in {"PriorYear", "Prior1Year"}
    THEN (IF c.period = "Duration" THEN "_prior"
          ELSE IF c.period = "Instant" THEN "_prioryear" ELSE "")
    ELSE IF c.year = "NextYear" THEN "_forecast"
    ELSE ""

\* lines 1285-1325 for one element
TseStep(items, elem) ==
    LET key == elem.name.local \o TseSuffix(elem.contextref)
        text_value == Strip(elem.text)
        value == parse_financial_value(elem)
    IN IF text_value = <<>> THEN items
       ELSE IF value # NoneVal THEN Put(items, key, value)
       ELSE IF text_value # <<FwDash>>
       THEN (IF Contains(text_value, Nen) /\ Contains(text_value, Gatsu)
             THEN Put(items, key, Str(format_date_to_iso(text_value)))
             ELSE Put(items, key, Str(text_value)))
       ELSE items

RECURSIVE TseSweep(_, _)
TseSweep(items, doc) ==
    IF doc = <<>> THEN items
    ELSE TseSweep(IF Head(doc).name.ns = "tse-ed-t" THEN TseStep(items, Head(doc)) ELSE items,
                  Tail(doc))

extract_all_tse_items(doc) == TseSweep(EmptyDict, doc)

(***************************************************************************)
(* The Attachment directory: its *.htm files in the order the file system  *)
(* lists them; acbs01 marks a name matching *acbs01*ixbrl.htm.             *)
(***************************************************************************)
\* lines 1130-1155: the first acbs01 file, if any
IsAcbs01(f) == f.acbs01
extract_detailed_financial_data(files) ==
    LET bs_files == SelectSeq(files, IsAcbs01) IN
    IF bs_files = <<>> THEN EmptyDict ELSE Section(bs_files[1].elems, detailed_items)

\* lines 1361-1368
JppfsSuffix(c) ==
    IF c.year = "CurrentYear" /\ c.period = "Instant" THEN "_current"
    ELSE IF c.year \in {"Prior1Year", "PriorYear"} /\ c.period = "Instant" THEN "_prior"
    ELSE IF c.year = "CurrentYear" /\ c.period = "Duration" THEN "_duration_current"
    ELSE IF c.year = "PriorYear" /\ c.period = "Duration" THEN "_duration_prior"
    ELSE ""

\* lines 1350-1377 for one element
JppfsStep(items, elem) ==
    LET key == elem.name.local \o JppfsSuffix(elem.contextref)
        value == parse_financial_value(elem)
    IN IF key \in DOMAIN items THEN items
       ELSE IF value # NoneVal THEN Put(items, key, value)
       ELSE items

RECURSIVE JppfsSweep(_, _)
JppfsSweep(items, doc) ==
    IF doc = <<>> THEN items
    ELSE JppfsSweep(IF Head(doc).name.ns = "jppfs_cor" THEN JppfsStep(items, Head(doc))
                    ELSE items,
                    Tail(doc))

RECURSIVE JppfsFiles(_, _)
JppfsFiles(items, files) ==
    IF files = <<>> THEN items
    ELSE JppfsFiles(JppfsSweep(items, Head(files).elems), Tail(files))

extract_all_jppfs_items(files) == JppfsFiles(EmptyDict, files)

(***************************************************************************)
(* Inputs of extract_comprehensive_financial_data: the Summary document    *)
(* and the Attachment directory of one filing.                             *)
(***************************************************************************)
CYI == Ctx("CurrentYear", "Instant", "")
CYD == Ctx("CurrentYear", "Duration", "")
CYD_C == Ctx("CurrentYear", "Duration", Consolidated)
CYD_N == Ctx("CurrentYear", "Duration", NonConsolidated)
CYI_N == Ctx("CurrentYear", "Instant", NonConsolidated)
P1YD == Ctx("Prior1Year", "Duration", "")

TxtDate == <<"2", "0", "2", "5", Nen, "8", Gatsu, "1", "9", Nichi>>

\* elements a Summary document is made of
SummaryElems == {
    Elem(Tag("tse-ed-t", "FilingDate"), CYI, "", TxtDate),
    Elem(Tag("tse-ed-t", "CompanyName"), CYI, "", <<"A">>),
    Elem(Tag("tse-ed-t", "CompanyName"), CYI, "", <<>>),
    Elem(Tag("tse-ed-t", "SecuritiesCode"), CYI, "", <<"1", " ", "2">>),
    Elem(Tag("tse-re-t", "IssuerNameREIT"), CYI, "", <<"R">>),
    Elem(Tag("tse-re-t", "Tel"), CYI, "", <<"5">>),
    Elem(Tag("tse-ed-t", "NetSales"), CYD_C, "", <<"5">>),
    Elem(Tag("tse-ed-t", "NetSales"), CYD_C, "-", <<"1", ",", "2">>),
    Elem(Tag("tse-ed-t", "NetSales"), CYD_N, "", <<"-">>),
    Elem(Tag("tse-ed-t", "net_sales"), CYD, "", <<"7">>),
    Elem(Tag("tse-ed-t", "cash_and_deposits"), CYD, "", <<"5">>),
    Elem(Tag("tse-ed-t", "DividendPayableDateAsPlanned"), CYI, "", <<>>),
    Elem(Tag("tse-ed-t", "NameOfSubsidiariesNewlyConsolidated"), CYD_C, "", <<"A">>)
}

\* elements an Attachment document is made of
AttachmentElems == {
    Elem(Tag("jppfs_cor", "CashAndDeposits"), CYI, "", <<"7">>),
    Elem(Tag("jppfs_cor", "CashAndDeposits"), CYI_N, "-", <<"5">>),
    Elem(Tag("jppfs_cor", "CashAndDeposits"), CYI, "", <<FwDash>>),
    Elem(Tag("jppfs_cor", "NetSales"), P1YD, "", <<"5">>)
}

Files(b) == {[acbs01 |-> a, elems |-> es] : a \in BOOLEAN, es \in SeqsUpTo(AttachmentElems, b)}

\* directories of at most f files holding at most b elements together
RECURSIVE FileSeqs(_, _)
FileSeqs(b, f) ==
    IF f = 0 THEN {<<>>}
    ELSE {<<>>} \cup
         UNION {{<<file>> \o rest : rest \in FileSeqs(b - Len(file.elems), f - 1)} :
                file \in Files(b)}

NoAttachment == [present |-> FALSE, files |-> <<>>]
AttachmentDirs(b) ==
    {NoAttachment} \cup {[present |-> TRUE, files |-> fs] : fs \in FileSeqs(b, MaxFiles)}

VARIABLES
    xpc,                 \* position in extract_comprehensive_financial_data
    summary,             \* the Summary file: whether it can be read, its elements
    attachment,          \* the Attachment directory, if any
    comprehensive_data,  \* the mapping being assembled
    result               \* the returned mapping, meaningful once xpc = "returned"

extractVars == <<xpc, summary, attachment, comprehensive_data, result>>

ExtractIdle ==
    /\ xpc = "idle"
    /\ summary = [readable |-> FALSE, elems |-> <<>>]
    /\ attachment = NoAttachment
    /\ comprehensive_data = EmptyDict
    /\ result = EmptyDict

ExtractInit ==
    /\ xpc = "read"
    /\ \E n \in 0..MaxElems :
         /\ summary \in {[readable |-> TRUE, elems |-> es] : es \in [1..n -> SummaryElems]}
                        \cup {[readable |-> FALSE, elems |-> <<>>]}
         /\ attachment \in AttachmentDirs(MaxElems - n)
    /\ comprehensive_data = EmptyDict
    /\ result = EmptyDict

(***************************************************************************)
(* extract_comprehensive_financial_data as one function of the Summary     *)
(* file and the Attachment directory (lines 1165-1243).                    *)
(***************************************************************************)
\* lines 1184-1190
FilingDate(doc) ==
    LET i == FindByName(doc, Tag("tse-ed-t", "FilingDate")) IN
    IF i # 0 THEN Str(format_date_to_iso(Strip(doc[i].text))) ELSE Str(<<>>)

\* lines 1184-1225: the steps over the Summary document
SummarySteps(doc) ==
    LET d1 == Put(EmptyDict, "date", FilingDate(doc))
        d2 == Update(d1, extract_comprehensive_company_info(doc))
        d3 == Update(d2, Section(doc, income_items))
        d4 == Update(d3, Section(doc, balance_items))
        d5 == Update(d4, Section(doc, cf_items))
        d6 == Update(d5, Section(doc, ratio_items))
        d7 == Update(d6, Section(doc, dividend_items))
        d8 == Update(d7, Section(doc, other_items))
    IN AddMissing(d8, extract_all_tse_items(doc))

\* lines 1228-1237: the steps over the Attachment directory, which are
\* skipped (nothing is merged) when attachment_dir_path is None
AttachmentSteps(d, att) ==
    AddMissing(Update(d, IF att.present THEN extract_detailed_financial_data(att.files)
                         ELSE EmptyDict),
               IF att.present THEN extract_all_jppfs_items(att.files) ELSE EmptyDict)

\* lines 1179-1243: any failure to open or parse returns {'date': ''}
extract_comprehensive_financial_data(file, att) ==
    IF file.readable THEN AttachmentSteps(SummarySteps(file.elems), att)
    ELSE Put(EmptyDict, "date", Str(<<>>))

(***************************************************************************)
(* Inputs of extract_comprehensive_data_from_directory: the entries of the *)
(* download directory in the order iterdir() gives them; a company         *)
(* directory has XBRLData/Summary with its *-ixbrl.htm files in the order  *)
(* glob() gives them, and XBRLData/Attachment.                             *)
(***************************************************************************)
\* company directories of one batch
MaxDirs == 2

NameA == Elem(Tag("tse-ed-t", "CompanyName"), CYI, "", <<"A">>)
NameB == Elem(Tag("tse-ed-t", "CompanyName"), CYI, "", <<"B">>)
NameBlank == Elem(Tag("tse-ed-t", "CompanyName"), CYI, "", <<" ">>)
NameReit == Elem(Tag("tse-re-t", "IssuerNameREIT"), CYI, "", <<"R">>)
TelReit == Elem(Tag("tse-re-t", "Tel"), CYI, "", <<"5">>)
Sales5 == Elem(Tag("tse-ed-t", "NetSales"), CYD_C, "", <<"5">>)
Cash7 == Elem(Tag("jppfs_cor", "CashAndDeposits"), CYI, "", <<"7">>)
Cash5 == Elem(Tag("jppfs_cor", "CashAndDeposits"), CYI, "", <<"5">>)

Unreadable == [readable |-> FALSE, elems |-> <<>>]
Readable(doc) == [readable |-> TRUE, elems |-> doc]
SummaryFiles ==
    {Unreadable} \cup
    {Readable(doc) : doc \in {<<>>, <<NameA>>, <<NameB, Sales5>>, <<NameBlank, Sales5>>,
                              <<NameReit, TelReit>>}}

\* what glob('*-ixbrl.htm') can give for a Summary directory
SummaryGlobs ==
    SeqsUpTo(SummaryFiles, 1) \cup
    {<<Readable(<<NameA>>), Readable(<<NameBlank, Sales5>>)>>,
     <<Readable(<<NameBlank, Sales5>>), Readable(<<NameA>>)>>}

BatchAttachments ==
    {[present |-> TRUE, files |-> fs] :
        fs \in {<<[acbs01 |-> TRUE, elems |-> <<Cash7>>]>>,
                <<[acbs01 |-> TRUE, elems |-> <<Cash7>>], [acbs01 |-> TRUE, elems |-> <<Cash5>>]>>}}

NoSummary == [present |-> FALSE, files |-> <<>>]
NotADir == [is_dir |-> FALSE, summary |-> NoSummary, attachment |-> NoAttachment]
CompanyDir(s, a) == [is_dir |-> TRUE, summary |-> s, attachment |-> a]
DirEntries ==
    {NotADir, CompanyDir(NoSummary, NoAttachment)}
    \cup {CompanyDir([present |-> TRUE, files |-> fs], NoAttachment) : fs \in SummaryGlobs}
    \cup {CompanyDir([present |-> TRUE, files |-> <<Readable(<<NameB, Sales5>>)>>], a) :
             a \in BatchAttachments}

\* the CSV file: whether it was written, and its rows after the header
NoCsv == [written |-> FALSE, rows |-> <<>>]

VARIABLES
    bpc,                 \* position in the extraction and output steps of main
    entries,             \* directory.iterdir(), in its order
    next_entry,          \* index of the entry the loop takes next
    all_financial_data,  \* the list being built, returned at bpc = "returned"
    all_items,           \* the --all-items option
    csv                  \* the output file

batchVars == <<bpc, entries, next_entry, all_financial_data, all_items, csv>>

BatchIdle ==
    /\ bpc = "idle"
    /\ entries = <<>>
    /\ next_entry = 1
    /\ all_financial_data = <<>>
    /\ all_items = FALSE
    /\ csv = NoCsv

BatchInit ==
    /\ bpc = "loop"
    /\ entries \in SeqsUpTo(DirEntries, MaxDirs)
    /\ next_entry = 1
    /\ all_financial_data = <<>>
    /\ all_items \in BOOLEAN
    /\ csv = NoCsv

(***************************************************************************)
(* is_financial_item (lines 1441-1568).  A key is a sequence of            *)
(* characters.                                                             *)
(***************************************************************************)
UpperLetters == <<"A", "B", "C", "D", "E", "F", "G", "H", "I", "J", "K", "L", "M",
                  "N", "O", "P", "Q", "R", "S", "T", "U", "V", "W", "X", "Y", "Z">>
LowerLetters == <<"a", "b", "c", "d", "e", "f", "g", "h", "i", "j", "k", "l", "m",
                  "n", "o", "p", "q", "r", "s", "t", "u", "v", "w", "x", "y", "z">>

\* str.lower()
LowerChar(c) ==
    IF \E i \in 1..26 : UpperLetters[i] = c
    THEN LowerLetters[CHOOSE i \in 1..26 : UpperLetters[i] = c]
    ELSE c
Lower(s) == [i \in 1..Len(s) |-> LowerChar(s[i])]

\* w in s
IsSubstring(w, s) == \E i \in 0..(Len(s) - Len(w)) : SubSeq(s, i + 1, i + Len(w)) = w

\* lines 1452-1520, each keyword spelled as characters
financial_keywords == <<
    <<"S", "a", "l", "e", "s">>,
    <<"s", "a", "l", "e", "s">>,
    <<"R", "e", "v", "e", "n", "u", "e">>,
    <<"r", "e", "v", "e", "n", "u", "e">>,
    <<"I", "n", "c", "o", "m", "e">>,
    <<"i", "n", "c", "o", "m", "e">>,
    <<"P", "r", "o", "f", "i", "t">>,
    <<"p", "r", "o", "f", "i", "t">>,
    <<"L", "o", "s", "s">>,
    <<"l", "o", "s", "s">>,
    <<"E", "x", "p", "e", "n", "s", "e">>,
    <<"e", "x", "p", "e", "n", "s", "e">>,
    <<"C", "o", "s", "t">>,
    <<"c", "o", "s", "t">>,
    <<"M", "a", "r", "g", "i", "n">>,
    <<"m", "a", "r", "g", "i", "n">>,
    <<"A", "s", "s", "e", "t">>,
    <<"a", "s", "s", "e", "t">>,
    <<"C", "a", "s", "h">>,
    <<"c", "a", "s", "h">>,
    <<"D", "e", "p", "o", "s", "i", "t">>,
    <<"d", "e", "p", "o", "s", "i", "t">>,
    <<"R", "e", "c", "e", "i", "v", "a", "b", "l", "e">>,
    <<"r", "e", "c", "e", "i", "v", "a", "b", "l", "e">>,
    <<"I", "n", "v", "e", "n", "t", "o", "r", "y">>,
    <<"i", "n", "v", "e", "n", "t", "o", "r", "y">>,
    <<"P", "r", "o", "p", "e", "r", "t", "y">>,
    <<"p", "r", "o", "p", "e", "r", "t", "y">>,
    <<"E", "q", "u", "i", "p", "m", "e", "n", "t">>,
    <<"e", "q", "u", "i", "p", "m", "e", "n", "t">>,
    <<"I", "n", "v", "e", "s", "t", "m", "e", "n", "t">>,
    <<"i", "n", "v", "e", "s", "t", "m", "e", "n", "t">>,
    <<"G", "o", "o", "d", "w", "i", "l", "l">>,
    <<"g", "o", "o", "d", "w", "i", "l", "l">>,
    <<"L", "i", "a", "b", "i", "l", "i", "t", "y">>,
    <<"l", "i", "a", "b", "i", "l", "i", "t", "y">>,
    <<"P", "a", "y", "a", "b", "l", "e">>,
    <<"p", "a", "y", "a", "b", "l", "e">>,
    <<"D", "e", "b", "t">>,
    <<"d", "e", "b", "t">>,
    <<"L", "o", "a", "n">>,
    <<"l", "o", "a", "n">>,
    <<"O", "b", "l", "i", "g", "a", "t", "i", "o", "n">>,
    <<"o", "b", "l", "i", "g", "a", "t", "i", "o", "n">>,
    <<"P", "r", "o", "v", "i", "s", "i", "o", "n">>,
    <<"p", "r", "o", "v", "i", "s", "i", "o", "n">>,
    <<"E", "q", "u", "i", "t", "y">>,
    <<"e", "q", "u", "i", "t", "y">>,
    <<"C", "a", "p", "i", "t", "a", "l">>,
    <<"c", "a", "p", "i", "t", "a", "l">>,
    <<"S", "u", "r", "p", "l", "u", "s">>,
    <<"s", "u", "r", "p", "l", "u", "s">>,
    <<"R", "e", "t", "a", "i", "n", "e", "d">>,
    <<"r", "e", "t", "a", "i", "n", "e", "d">>,
    <<"T", "r", "e", "a", "s", "u", "r", "y">>,
    <<"t", "r", "e", "a", "s", "u", "r", "y">>,
    <<"C", "a", "s", "h", "F", "l", "o", "w">>,
    <<"c", "a", "s", "h", "f", "l", "o", "w">>,
    <<"C", "F">>,
    <<"c", "f">>,
    <<"O", "p", "e", "r", "a", "t", "i", "n", "g">>,
    <<"o", "p", "e", "r", "a", "t", "i", "n", "g">>,
    <<"I", "n", "v", "e", "s", "t", "i", "n", "g">>,
    <<"i", "n", "v", "e", "s", "t", "i", "n", "g">>,
    <<"F", "i", "n", "a", "n", "c", "i", "n", "g">>,
    <<"f", "i", "n", "a", "n", "c", "i", "n", "g">>,
    <<"S", "h", "a", "r", "e">>,
    <<"s", "h", "a", "r", "e">>,
    <<"S", "t", "o", "c", "k">>,
    <<"s", "t", "o", "c", "k">>,
    <<"D", "i", "v", "i", "d", "e", "n", "d">>,
    <<"d", "i", "v", "i", "d", "e", "n", "d">>,
    <<"E", "P", "S">>,
    <<"e", "p", "s">>,
    <<"B", "P", "S">>,
    <<"b", "p", "s">>,
    <<"D", "P", "S">>,
    <<"d", "p", "s">>,
    <<"R", "a", "t", "i", "o">>,
    <<"r", "a", "t", "i", "o">>,
    <<"R", "a", "t", "e">>,
    <<"r", "a", "t", "e">>,
    <<"R", "O", "E">>,
    <<"r", "o", "e">>,
    <<"R", "O", "A">>,
    <<"r", "o", "a">>,
    <<"R", "O", "I">>,
    <<"r", "o", "i">>,
    <<"A", "d", "e", "q", "u", "a", "c", "y">>,
    <<"a", "d", "e", "q", "u", "a", "c", "y">>,
    <<"P", "a", "y", "o", "u", "t">>,
    <<"p", "a", "y", "o", "u", "t">>,
    <<"D", "e", "p", "r", "e", "c", "i", "a", "t", "i", "o", "n">>,
    <<"d", "e", "p", "r", "e", "c", "i", "a", "t", "i", "o", "n">>,
    <<"A", "m", "o", "r", "t", "i", "z", "a", "t", "i", "o", "n">>,
    <<"a", "m", "o", "r", "t", "i", "z", "a", "t", "i", "o", "n">>,
    <<"A", "l", "l", "o", "w", "a", "n", "c", "e">>,
    <<"a", "l", "l", "o", "w", "a", "n", "c", "e">>,
    <<"A", "c", "c", "u", "m", "u", "l", "a", "t", "e", "d">>,
    <<"a", "c", "c", "u", "m", "u", "l", "a", "t", "e", "d">>,
    <<"D", "e", "f", "e", "r", "r", "e", "d">>,
    <<"d", "e", "f", "e", "r", "r", "e", "d">>,
    <<"T", "a", "x">>,
    <<"t", "a", "x">>,
    <<"V", "a", "l", "u", "a", "t", "i", "o", "n">>,
    <<"v", "a", "l", "u", "a", "t", "i", "o", "n">>,
    <<"C", "o", "m", "p", "r", "e", "h", "e", "n", "s", "i", "v", "e">>,
    <<"c", "o", "m", "p", "r", "e", "h", "e", "n", "s", "i", "v", "e">>,
    <<"A", "t", "t", "r", "i", "b", "u", "t", "a", "b", "l", "e">>,
    <<"a", "t", "t", "r", "i", "b", "u", "t", "a", "b", "l", "e">>,
    <<"C", "o", "n", "t", "r", "o", "l", "l", "i", "n", "g">>,
    <<"c", "o", "n", "t", "r", "o", "l", "l", "i", "n", "g">>,
    <<"W", "o", "r", "k", "i", "n", "g">>,
    <<"w", "o", "r", "k", "i", "n", "g">>,
    <<"F", "i", "x", "e", "d">>,
    <<"f", "i", "x", "e", "d">>,
    <<"C", "u", "r", "r", "e", "n", "t">>,
    <<"c", "u", "r", "r", "e", "n", "t">>,
    <<"N", "o", "n", "c", "u", "r", "r", "e", "n", "t">>,
    <<"n", "o", "n", "c", "u", "r", "r", "e", "n", "t">>,
    <<"P", "r", "i", "o", "r">>,
    <<"p", "r", "i", "o", "r">>,
    <<"P", "r", "e", "v", "i", "o", "u", "s">>,
    <<"p", "r", "e", "v", "i", "o", "u", "s">>,
    <<"Q", "u", "a", "r", "t", "e", "r">>,
    <<"q", "u", "a", "r", "t", "e", "r">>,
    <<"P", "e", "r", "i", "o", "d">>,
    <<"p", "e", "r", "i", "o", "d">>,
    <<"Y", "e", "a", "r">>,
    <<"y", "e", "a", "r">>,
    <<"A", "n", "n", "u", "a", "l">>,
    <<"a", "n", "n", "u", "a", "l">>,
    <<"F", "i", "s", "c", "a", "l">>,
    <<"f", "i", "s", "c", "a", "l">>,
    <<"A", "v", "e", "r", "a", "g", "e">>,
    <<"a", "v", "e", "r", "a", "g", "e">>,
    <<"T", "o", "t", "a", "l">>,
    <<"t", "o", "t", "a", "l">>,
    <<"N", "e", "t">>,
    <<"n", "e", "t">>,
    <<"G", "r", "o", "s", "s">>,
    <<"g", "r", "o", "s", "s">>,
    <<"O", "p", "e", "r", "a", "t", "i", "n", "g">>,
    <<"o", "p", "e", "r", "a", "t", "i", "n", "g">>,
    <<"O", "r", "d", "i", "n", "a", "r", "y">>,
    <<"o", "r", "d", "i", "n", "a", "r", "y">>,
    <<"E", "x", "t", "r", "a", "o", "r", "d", "i", "n", "a", "r", "y">>,
    <<"e", "x", "t", "r", "a", "o", "r", "d", "i", "n", "a", "r", "y">>,
    <<"S", "p", "e", "c", "i", "a", "l">>,
    <<"s", "p", "e", "c", "i", "a", "l">>,
    <<"O", "t", "h", "e", "r">>,
    <<"o", "t", "h", "e", "r">>,
    <<"B", "e", "f", "o", "r", "e">>,
    <<"b", "e", "f", "o", "r", "e">>,
    <<"A", "f", "t", "e", "r">>,
    <<"a", "f", "t", "e", "r">>,
    <<"B", "e", "g", "i", "n", "n", "i", "n", "g">>,
    <<"b", "e", "g", "i", "n", "n", "i", "n", "g">>,
    <<"E", "n", "d">>,
    <<"e", "n", "d">>,
    <<"I", "n", "c", "r", "e", "a", "s", "e">>,
    <<"i", "n", "c", "r", "e", "a", "s", "e">>,
    <<"D", "e", "c", "r", "e", "a", "s", "e">>,
    <<"d", "e", "c", "r", "e", "a", "s", "e">>,
    <<"C", "h", "a", "n", "g", "e">>,
    <<"c", "h", "a", "n", "g", "e">>,
    <<"A", "d", "j", "u", "s", "t", "m", "e", "n", "t">>,
    <<"a", "d", "j", "u", "s", "t", "m", "e", "n", "t">>,
    <<"B", "a", "l", "a", "n", "c", "e">>,
    <<"b", "a", "l", "a", "n", "c", "e">>,
    <<"A", "m", "o", "u", "n", "t">>,
    <<"a", "m", "o", "u", "n", "t">>,
    <<"N", "u", "m", "b", "e", "r">>,
    <<"n", "u", "m", "b", "e", "r">>,
    <<"I", "s", "s", "u", "e", "d">>,
    <<"i", "s", "s", "u", "e", "d">>,
    <<"O", "u", "t", "s", "t", "a", "n", "d", "i", "n", "g">>,
    <<"o", "u", "t", "s", "t", "a", "n", "d", "i", "n", "g">>,
    <<"C", "o", "n", "s", "o", "l", "i", "d", "a", "t", "e", "d">>,
    <<"c", "o", "n", "s", "o", "l", "i", "d", "a", "t", "e", "d">>,
    <<"N", "o", "n", "C", "o", "n", "s", "o", "l", "i", "d", "a", "t", "e", "d">>,
    <<"n", "o", "n", "c", "o", "n", "s", "o", "l", "i", "d", "a", "t", "e", "d">>,
    <<"S", "e", "g", "m", "e", "n", "t">>,
    <<"s", "e", "g", "m", "e", "n", "t">>,
    <<"B", "u", "s", "i", "n", "e", "s", "s">>,
    <<"b", "u", "s", "i", "n", "e", "s", "s">>,
    <<"A", "c", "c", "o", "u", "n", "t">>,
    <<"a", "c", "c", "o", "u", "n", "t">>,
    <<"S", "t", "a", "t", "e", "m", "e", "n", "t">>,
    <<"s", "t", "a", "t", "e", "m", "e", "n", "t">>,
    <<"R", "e", "s", "u", "l", "t">>,
    <<"r", "e", "s", "u", "l", "t">>,
    <<"F", "o", "r", "e", "c", "a", "s", "t">>,
    <<"f", "o", "r", "e", "c", "a", "s", "t">>,
    <<"P", "l", "a", "n">>,
    <<"p", "l", "a", "n">>,
    <<"B", "u", "d", "g", "e", "t">>,
    <<"b", "u", "d", "g", "e", "t">>,
    <<"A", "c", "t", "u", "a", "l">>,
    <<"a", "c", "t", "u", "a", "l">>,
    <<"M", "e", "m", "b", "e", "r">>,
    <<"m", "e", "m", "b", "e", "r">>,
    <<"M", "a", "r", "k">>,
    <<"m", "a", "r", "k">>
>>

\* lines 1523-1552, each keyword spelled as characters
non_financial_keywords == <<
    <<"C", "o", "m", "p", "a", "n", "y", "N", "a", "m", "e">>,
    <<"c", "o", "m", "p", "a", "n", "y", "_", "n", "a", "m", "e">>,
    <<"D", "o", "c", "u", "m", "e", "n", "t", "N", "a", "m", "e">>,
    <<"d", "o", "c", "u", "m", "e", "n", "t", "_", "n", "a", "m", "e">>,
    <<"F", "i", "l", "i", "n", "g", "D", "a", "t", "e">>,
    <<"f", "i", "l", "i", "n", "g", "_", "d", "a", "t", "e">>,
    <<"d", "a", "t", "e">>,
    <<"S", "e", "c", "u", "r", "i", "t", "i", "e", "s", "C", "o", "d", "e">>,
    <<"s", "e", "c", "u", "r", "i", "t", "i", "e", "s", "_", "c", "o", "d", "e">>,
    <<"T", "e", "l">>,
    <<"t", "e", "l">>,
    <<"U", "R", "L">>,
    <<"u", "r", "l">>,
    <<"R", "e", "p", "r", "e", "s", "e", "n", "t", "a", "t", "i", "v", "e">>,
    <<"r", "e", "p", "r", "e", "s", "e", "n", "t", "a", "t", "i", "v", "e">>,
    <<"I", "n", "q", "u", "i", "r", "i", "e", "s">>,
    <<"i", "n", "q", "u", "i", "r", "i", "e", "s">>,
    <<"T", "i", "t", "l", "e">>,
    <<"t", "i", "t", "l", "e">>,
    <<"N", "a", "m", "e">>,
    <<"n", "a", "m", "e">>,
    <<"T", "o", "k", "y", "o", "S", "t", "o", "c", "k", "E", "x", "c", "h", "a", "n", "g", "e">>,
    <<"N", "a", "g", "o", "y", "a", "S", "t", "o", "c", "k", "E", "x", "c", "h", "a", "n", "g", "e">>,
    <<"S", "a", "p", "p", "o", "r", "o", "S", "t", "o", "c", "k", "E", "x", "c", "h", "a", "n", "g", "e">>,
    <<"F", "u", "k", "u", "o", "k", "a", "S", "t", "o", "c", "k", "E", "x", "c", "h", "a", "n", "g", "e">>,
    <<"J", "a", "p", "a", "n", "S", "e", "c", "u", "r", "i", "t", "i", "e", "s", "D", "e", "a", "l", "e", "r", "s", "A", "s", "s", "o", "c", "i", "a", "t", "i", "o", "n">>,
    <<"G", "e", "n", "e", "r", "a", "l", "B", "u", "s", "i", "n", "e", "s", "s">>,
    <<"S", "p", "e", "c", "i", "f", "i", "c", "B", "u", "s", "i", "n", "e", "s", "s">>,
    <<"F", "A", "S", "F">>,
    <<"f", "a", "s", "f">>,
    <<"S", "u", "p", "p", "l", "e", "m", "e", "n", "t", "a", "l">>,
    <<"s", "u", "p", "p", "l", "e", "m", "e", "n", "t", "a", "l">>,
    <<"C", "o", "n", "v", "e", "n", "i", "n", "g">>,
    <<"c", "o", "n", "v", "e", "n", "i", "n", "g">>,
    <<"B", "r", "i", "e", "f", "i", "n", "g">>,
    <<"b", "r", "i", "e", "f", "i", "n", "g">>,
    <<"T", "a", "r", "g", "e", "t", "A", "u", "d", "i", "e", "n", "c", "e">>,
    <<"W", "a", "y", "O", "f", "G", "e", "t", "t", "i", "n", "g">>,
    <<"N", "o", "t", "e">>,
    <<"n", "o", "t", "e">>,
    <<"P", "r", "e", "a", "m", "b", "l", "e">>,
    <<"p", "r", "e", "a", "m", "b", "l", "e">>,
    <<"A", "c", "c", "o", "u", "n", "t", "i", "n", "g", "P", "o", "l", "i", "c", "y">>,
    <<"A", "c", "c", "o", "u", "n", "t", "i", "n", "g", "P", "o", "l", "i", "c", "i", "e", "s">>,
    <<"A", "c", "c", "o", "u", "n", "t", "i", "n", "g", "E", "s", "t", "i", "m", "a", "t", "e">>,
    <<"A", "c", "c", "o", "u", "n", "t", "i", "n", "g", "E", "s", "t", "i", "m", "a", "t", "e", "s">>,
    <<"R", "e", "t", "r", "o", "s", "p", "e", "c", "t", "i", "v", "e">>,
    <<"r", "e", "t", "r", "o", "s", "p", "e", "c", "t", "i", "v", "e">>,
    <<"R", "e", "s", "t", "a", "t", "e", "m", "e", "n", "t">>,
    <<"r", "e", "s", "t", "a", "t", "e", "m", "e", "n", "t">>,
    <<"S", "i", "g", "n", "i", "f", "i", "c", "a", "n", "t", "C", "h", "a", "n", "g", "e", "s">>,
    <<"s", "i", "g", "n", "i", "f", "i", "c", "a", "n", "t", "c", "h", "a", "n", "g", "e", "s">>,
    <<"A", "p", "p", "l", "y", "i", "n", "g", "O", "f", "S", "p", "e", "c", "i", "f", "i", "c">>,
    <<"a", "p", "p", "l", "y", "i", "n", "g", "o", "f", "s", "p", "e", "c", "i", "f", "i", "c">>,
    <<"C", "h", "a", "n", "g", "e", "s", "B", "a", "s", "e", "d", "O", "n", "R", "e", "v", "i", "s", "i", "o", "n", "s">>,
    <<"c", "h", "a", "n", "g", "e", "s", "b", "a", "s", "e", "d", "o", "n", "r", "e", "v", "i", "s", "i", "o", "n", "s">>,
    <<"C", "h", "a", "n", "g", "e", "s", "O", "t", "h", "e", "r", "T", "h", "a", "n">>,
    <<"c", "h", "a", "n", "g", "e", "s", "o", "t", "h", "e", "r", "t", "h", "a", "n">>,
    <<"N", "o", "t", "e", "T", "o">>,
    <<"n", "o", "t", "e", "t", "o">>,
    <<"S", "u", "b", "s", "i", "d", "i", "a", "r", "i", "e", "s", "N", "e", "w", "l", "y">>,
    <<"s", "u", "b", "s", "i", "d", "i", "a", "r", "i", "e", "s", "n", "e", "w", "l", "y">>,
    <<"S", "u", "b", "s", "i", "d", "i", "a", "r", "i", "e", "s", "E", "x", "c", "l", "u", "d", "e", "d">>,
    <<"s", "u", "b", "s", "i", "d", "i", "a", "r", "i", "e", "s", "e", "x", "c", "l", "u", "d", "e", "d">>,
    <<"N", "a", "m", "e", "O", "f">>,
    <<"n", "a", "m", "e", "o", "f">>,
    <<"F", "r", "a", "c", "t", "i", "o", "n">>,
    <<"f", "r", "a", "c", "t", "i", "o", "n">>,
    <<"P", "r", "o", "c", "e", "s", "s", "i", "n", "g">>,
    <<"p", "r", "o", "c", "e", "s", "s", "i", "n", "g">>,
    <<"M", "e", "t", "h", "o", "d">>,
    <<"m", "e", "t", "h", "o", "d">>
>>
\* mutant: the inclusion list is consulted first
is_financial_item_InclusionFirst(key) ==
    LET key_lower == Lower(key) IN
    \E i \in 1..Len(financial_keywords) : IsSubstring(Lower(financial_keywords[i]), key_lower)

\* lines 1555-1568
is_financial_item(key) ==
    LET key_lower == Lower(key) IN
    IF \E i \in 1..Len(non_financial_keywords) :
           IsSubstring(Lower(non_financial_keywords[i]), key_lower)
    THEN FALSE
    ELSE \E i \in 1..Len(financial_keywords) :
             IsSubstring(Lower(financial_keywords[i]), key_lower)

(***************************************************************************)
(* Inputs of the text functions _parse_financial_value,                    *)
(* _format_date_to_iso and is_financial_item: the text of an element with  *)
(* its sign attribute, or a key.                                           *)
(***************************************************************************)
\* characters of a generated text
MaxLen == 3
\* words of a generated key
MaxWords == 2

TextAlphabet == {"1", "0", ",", "-", FwDash, " ", "x"}

Text1234 == <<"1", ",", "2", "3", "4">>
DateIso == <<"2", "0", "2", "5", "-", "0", "8", "-", "1", "9">>
DateSlash == <<"2", "0", "2", "5", "/", "0", "8", "/", "1", "9">>
DateCompact == <<"2", "0", "2", "5", "0", "8", "1", "9">>
DateLocal == <<"2", "0", "2", "5", Nen, "8", Gatsu, "1", "9", Nichi>>
DateLocalFw == <<FwDigits[3], FwDigits[1], FwDigits[3], FwDigits[6], Nen, FwDigits[9], Gatsu,
                 FwDigits[2], FwDigits[10], Nichi>>
DateSlashFw == <<FwDigits[3], FwDigits[1], FwDigits[3], FwDigits[6], FwSlash, FwDigits[1],
                 FwDigits[9], FwSlash, FwDigits[2], FwDigits[10]>>
DateLocalSpaced == <<" ">> \o DateLocal \o <<FwSpace>>
DateUs == <<"0", "8", "/", "1", "9", "/", "2", "0", "2", "5">>
DateNoDay == <<"2", "0", "2", "5", "/", "1", "3", "/", "4", "5">>
DateWords == <<"x", FwDigits[2], FwSlash, "2", "0", "2", "5", "x", "x", "x", "x">>
DateTexts == {DateIso, DateSlash, DateCompact, DateLocal, DateLocalFw, DateSlashFw,
              DateLocalSpaced, DateUs, DateNoDay, DateWords}

KeyWords == {<<"n", "e", "t">>, <<"_">>, <<"s", "a", "l", "e", "s">>, <<"t", "e", "l">>,
             <<"N", "a", "m", "e">>, <<"x">>, <<"U", "R", "L">>, <<"T", "o", "t", "a", "l">>}
RECURSIVE KeysOfWords(_)
KeysOfWords(n) ==
    IF n = 0 THEN {<<>>}
    ELSE KeysOfWords(n - 1) \cup {k \o w : k \in KeysOfWords(n - 1), w \in KeyWords}

KeyCompanyName == <<"c", "o", "m", "p", "a", "n", "y", "_", "n", "a", "m", "e">>
KeyFilingDate == <<"f", "i", "l", "i", "n", "g", "_", "d", "a", "t", "e">>
KeyTel == <<"t", "e", "l">>
KeyNetSalesCurrent == <<"n", "e", "t", "_", "s", "a", "l", "e", "s", "_",
                        "c", "u", "r", "r", "e", "n", "t">>
KeyTotalAssetsPrior == <<"t", "o", "t", "a", "l", "_", "a", "s", "s", "e", "t", "s", "_",
                         "p", "r", "i", "o", "r">>
KeyOperatingCashFlowCurrent == <<"o", "p", "e", "r", "a", "t", "i", "n", "g", "_",
                                 "c", "a", "s", "h", "_", "f", "l", "o", "w", "_",
                                 "c", "u", "r", "r", "e", "n", "t">>
KeyTexts == {KeyCompanyName, KeyFilingDate, KeyTel, KeyNetSalesCurrent, KeyTotalAssetsPrior,
             KeyOperatingCashFlowCurrent}

Texts == SeqsUpTo(TextAlphabet, MaxLen) \cup {Text1234} \cup DateTexts
         \cup KeysOfWords(MaxWords) \cup KeyTexts

VARIABLES
    fn,          \* the function applied: "none" before the call
    text,        \* the text of the element, or the key
    sign,        \* the sign attribute of the element, "" when it has none
    value,       \* what _parse_financial_value returned
    formatted,   \* what _format_date_to_iso returned
    financial    \* what is_financial_item returned

fnVars == <<fn, text, sign, value, formatted, financial>>

FnIdle ==
    /\ fn = "idle"
    /\ text = <<>>
    /\ sign = ""
    /\ value = NoneVal
    /\ formatted = <<>>
    /\ financial = FALSE

FnInit ==
    /\ fn = "none"
    /\ text \in Texts
    /\ sign \in {"", "-"}
    /\ value = NoneVal
    /\ formatted = <<>>
    /\ financial = FALSE

(***************************************************************************)
(* Inputs of an extract-all run of main (lines 1964-2052): the download    *)
(* list, what the portal serves for each record, the --keep-files option   *)
(* and what an earlier run left under xbrl_data/<date>.                    *)
(***************************************************************************)
\* records of the download list
MaxRecords == 2

\* the code and name cells of a listing row; a row without the cell gives
\* None, which is written <<>> (both are false in "if company_name and code")
IssuerA == [code |-> <<"1">>, name |-> <<"A">>]
IssuerB == [code |-> <<"2">>, name |-> <<"B", ".">>]
NoIssuer == [code |-> <<>>, name |-> <<>>]
Issuers == {IssuerA, IssuerB, NoIssuer}

\* the record of row i: the URL basename is named by the row, zip tells
\* whether it ends in ".zip"
ListedRecord(issuer, i, zip) ==
    [code |-> issuer.code, name |-> issuer.name, xbrl_url |-> [id |-> i, zip |-> zip]]

\* Summary documents of the archives of this run, and of an earlier run
DocA == Readable(<<NameA, Sales5>>)
DocBlank == Readable(<<NameBlank, Sales5>>)
DocB == Readable(<<NameB, Sales5>>)

\* what the GET of an xbrl_url and the unpacking of its body give:
\*   transport_error  requests raises a RequestException
\*   bad_zip          zipfile.ZipFile raises BadZipFile (the body is no archive)
\*   damaged          the archive opens, extractall raises zlib.error on a
\*                    member whose compressed stream is damaged
\*   no_summary       an archive without XBRLData/Summary
\*   archive          an archive with one document in XBRLData/Summary
Package(kind, doc) == [kind |-> kind, doc |-> doc]
Packages ==
    {Package(k, Unreadable) : k \in {"transport_error", "bad_zip", "damaged", "no_summary"}}
    \cup {Package("archive", d) : d \in {DocA, DocBlank}}

\* save_dir: whether it exists, the files in it, and its directories, each
\* with the documents of its XBRLData/Summary directory
NoSaveDir == [exists |-> FALSE, files |-> {}, dirs |-> [n \in {} |-> {}]]
StaleName == [code |-> <<"9">>, safe_name |-> <<"B">>, stem |-> 0]
StaleSaveDir ==
    [exists |-> TRUE, files |-> {},
     dirs |-> [n \in {StaleName} |-> {[file |-> 0, doc |-> DocB]}]]

DownloadLists ==
    UNION {{[i \in 1..n |-> ListedRecord(is[i], i, zs[i])] :
               is \in [1..n -> Issuers], zs \in [1..n -> BOOLEAN]} : n \in 1..MaxRecords}

VARIABLES
    rpc,                 \* position in the extract-all branch of main
    download_records,    \* the filtered, limited download list
    portal,              \* what the portal serves for each record
    keep_files,          \* the --keep-files option
    save_dir,            \* xbrl_data/<date> on disk
    rec_idx,             \* the loop variable i of the download loop
    results,             \* what download_xbrl_file returned, record by record
    success_count,       \* the counter of line 1995
    financial_data_list, \* the list the aggregator returned
    run_csv              \* the CSV file of the run

runVars == <<rpc, download_records, portal, keep_files, save_dir, rec_idx, results,
             success_count, financial_data_list, run_csv>>

RunIdle ==
    /\ rpc = "idle"
    /\ download_records = <<>>
    /\ portal = <<>>
    /\ keep_files = FALSE
    /\ save_dir = NoSaveDir
    /\ rec_idx = 1
    /\ results = <<>>
    /\ success_count = 0
    /\ financial_data_list = <<>>
    /\ run_csv = NoCsv

\* lines 1970-1983: the list is not empty (main returned at line 1948 otherwise)
RunInit ==
    /\ rpc = "download"
    /\ download_records \in DownloadLists
    /\ portal \in [1..Len(download_records) -> Packages]
    /\ \A i \in 1..Len(download_records) :
          ~download_records[i].xbrl_url.zip => portal[i].kind \in {"transport_error", "bad_zip"}
    /\ keep_files \in BOOLEAN
    /\ save_dir \in {NoSaveDir, StaleSaveDir}
    /\ rec_idx = 1
    /\ results = <<>>
    /\ success_count = 0
    /\ financial_data_list = <<>>
    /\ run_csv = NoCsv

(***************************************************************************)
(* Inputs of filter_records (lines 582-624): a record list as              *)
(* fetch_xbrl_list builds it and a filter type.                            *)
(***************************************************************************)
\* records of the list handed to filter_records
MaxListed == 2
\* words a title is made of
MaxTitleWords == 2

Kessan == <<"U+6C7A", "U+7B97", "U+77ED", "U+4FE1">>
ReitFw == <<"U+FF32", "U+FF25", "U+FF29", "U+FF34">>
ReitKana == <<"U+30EA", "U+30FC", "U+30C8">>
ReitAscii == <<"R", "E", "I", "T">>
Teisei == <<"U+8A02", "U+6B63">>
Shusei == <<"U+4FEE", "U+6B63">>
GyosekiYoso == <<"U+696D", "U+7E3E", "U+4E88", "U+60F3">>
GyosekiNoShusei == <<"U+696D", "U+7E3E", "U+306E">> \o Shusei
TitleWords == {Kessan, ReitFw, ReitKana, ReitAscii, Teisei, Shusei, GyosekiYoso, GyosekiNoShusei,
               <<"X">>}

RECURSIVE Joined(_)
Joined(ws) == IF ws = <<>> THEN <<>> ELSE Head(ws) \o Joined(Tail(ws))

\* kj_title_str: the link text of the title cell, None when the cell has no
\* link (lines 454, 480-485)
Title(s) == [none |-> FALSE, s |-> s]
NoTitle == [none |-> TRUE, s |-> <<>>]
Titles == {Title(Joined(ws)) : ws \in SeqsUpTo(TitleWords, MaxTitleWords)} \cup {NoTitle}

\* a record, named by its row, with its title
TitledRecord(i, t) == [row |-> i, title |-> t]
TitledLists == UNION {{[i \in 1..n |-> TitledRecord(i, ts[i])] : ts \in [1..n -> Titles]} :
                          n \in 0..MaxListed}

FilterTypes == {"all", "kessan", "gyoseki", "other"}

\* the outcome of a call: a returned list, or an exception
FilterReturned(recs) == [raised |-> FALSE, records |-> recs]
FilterRaised == [raised |-> TRUE, records |-> <<>>]

VARIABLES
    fpc,                 \* "call" before filter_records is applied, "done" after
    listed_records,      \* the argument records
    filter_type,         \* the argument filter_type
    filtered             \* the outcome

filterVars == <<fpc, listed_records, filter_type, filtered>>

FilterIdle ==
    /\ fpc = "idle"
    /\ listed_records = <<>>
    /\ filter_type = "all"
    /\ filtered = FilterReturned(<<>>)

FilterInit ==
    /\ fpc = "call"
    /\ listed_records \in TitledLists
    /\ filter_type \in FilterTypes
    /\ filtered = FilterReturned(<<>>)

(***************************************************************************)
(* State of one call of fetch_all_pages_xbrl.                              *)
(***************************************************************************)
VARIABLES
    pc,                  \* position in fetch_all_pages_xbrl
    first_page_records,  \* result of the page-1 fetch
    all_xbrl_records,    \* accumulated XBRL records
    page,                \* the Python variable page
    total_pages,         \* computed page count
    log,                 \* requests issued and sleeps taken, in order
    ret,                 \* returned value, meaningful once pc = "done"
    actual_pages,        \* pages statistic printed at the end
    duplicates_removed   \* duplicate counter printed at the end

crawlVars == <<pc, first_page_records, all_xbrl_records, page, total_pages, log,
               ret, actual_pages, duplicates_removed>>

CrawlInit ==
    /\ pc = "first"
    /\ first_page_records = <<>>
    /\ all_xbrl_records = <<>>
    /\ page = 1
    /\ total_pages = 0
    /\ log = <<>>
    /\ ret = Returned(<<>>)
    /\ actual_pages = 0
    /\ duplicates_removed = 0

\* rows served by the requests of a log
RECURSIVE RowsServed(_)
RowsServed(l) ==
    IF l = <<>> THEN 0 ELSE Len(Head(l).resp.rows) + RowsServed(Tail(l))

ListReq(p, resp) == [op |-> "list", page |-> p, resp |-> resp, banner |-> <<>>]
BannerReq(b) ==
    [op |-> "banner", page |-> 1, resp |-> [kind |-> IF b.ok THEN "ok" ELSE "error", rows |-> <<>>],
     banner |-> b.patterns]
Sleep == [op |-> "sleep", page |-> 0, resp |-> [kind |-> "ok", rows |-> <<>>], banner |-> <<>>]

\* lines 307-311: fetch page 1; return [] when it gives no record
FetchFirstPage ==
    /\ pc = "first"
    /\ \E resp \in Responses(RowsServed(log)) :
         LET recs == fetch_xbrl_list(resp, 1) IN
         /\ log' = Append(log, ListReq(1, resp))
         /\ first_page_records' = recs
         /\ IF recs = <<>>
            THEN /\ pc' = "done"
                 /\ ret' = Returned(<<>>)
            ELSE /\ pc' = "banner"
                 /\ ret' = ret
    /\ UNCHANGED <<all_xbrl_records, page, total_pages, actual_pages, duplicates_removed>>
    /\ UNCHANGED <<extractVars, batchVars, fnVars, runVars, filterVars>>

\* lines 313-342: second request of page 1 for the count banner
FetchBanner ==
    /\ pc = "banner"
    /\ \E b \in BannerResponses :
         /\ log' = Append(log, BannerReq(b))
         /\ total_pages' = TotalPages(b)
    /\ pc' = "loop_first"
    /\ UNCHANGED <<first_page_records, all_xbrl_records, page, ret, actual_pages,
                   duplicates_removed>>
    /\ UNCHANGED <<extractVars, batchVars, fnVars, runVars, filterVars>>

\* mutant: a page without records does not end the loop
LoopBody_NoBreak(p, records, newlog) ==
    /\ page' = p
    /\ all_xbrl_records' = all_xbrl_records \o records
    /\ log' = IF p < total_pages /\ records # <<>> THEN Append(newlog, Sleep) ELSE newlog
    /\ pc' = IF p < total_pages THEN "loop" ELSE "dedup"
    /\ UNCHANGED <<first_page_records, total_pages, ret, actual_pages, duplicates_removed>>
    /\ UNCHANGED <<extractVars, batchVars, fnVars, runVars, filterVars>>

\* mutant: the loop runs over range(1, total_pages + 2)
LoopBody_OneMore(p, records, newlog) ==
    /\ page' = p
    /\ IF records = <<>>
       THEN /\ pc' = "dedup"
            /\ all_xbrl_records' = all_xbrl_records
            /\ log' = newlog
       ELSE /\ all_xbrl_records' = all_xbrl_records \o records
            /\ log' = IF p < total_pages THEN Append(newlog, Sleep) ELSE newlog
            /\ pc' = IF p <= total_pages THEN "loop" ELSE "dedup"
    /\ UNCHANGED <<first_page_records, total_pages, ret, actual_pages, duplicates_removed>>
    /\ UNCHANGED <<extractVars, batchVars, fnVars, runVars, filterVars>>

\* lines 358-372 for the records of one page
LoopBody(p, records, newlog) ==
    /\ page' = p
    /\ IF records = <<>>
       THEN /\ pc' = "dedup"
            /\ all_xbrl_records' = all_xbrl_records
            /\ log' = newlog
       ELSE /\ all_xbrl_records' = all_xbrl_records \o records
            /\ log' = IF p < total_pages THEN Append(newlog, Sleep) ELSE newlog
            /\ pc' = IF p < total_pages THEN "loop" ELSE "dedup"
    /\ UNCHANGED <<first_page_records, total_pages, ret, actual_pages, duplicates_removed>>
    /\ UNCHANGED <<extractVars, batchVars, fnVars, runVars, filterVars>>

\* lines 348-372, page == 1: the records fetched before are used
LoopFirstPage ==
    /\ pc = "loop_first"
    /\ LoopBody(1, first_page_records, log)

\* lines 348-372, page > 1: fetch the page
LoopFetchPage ==
    /\ pc = "loop"
    /\ \E resp \in Responses(RowsServed(log)) :
         LoopBody(page + 1, fetch_xbrl_list(resp, page + 1),
                  Append(log, ListReq(page + 1, resp)))

\* lines 385-412: deduplicate, statistics, return
Finish ==
    /\ pc = "dedup"
    /\ duplicates_removed' = DuplicatesRemoved(all_xbrl_records)
    /\ actual_pages' = ActualPages(page)
    /\ ret' = Returned(DedupRecords(all_xbrl_records))
    /\ pc' = "done"
    /\ UNCHANGED <<first_page_records, all_xbrl_records, page, total_pages, log>>
    /\ UNCHANGED <<extractVars, batchVars, fnVars, runVars, filterVars>>

CrawlNext == FetchFirstPage \/ FetchBanner \/ LoopFirstPage \/ LoopFetchPage \/ Finish

(***************************************************************************)
(* extract_comprehensive_financial_data (lines 1165-1243), step by step.   *)
(***************************************************************************)
\* lines 1179-1182, 1241-1243: open and parse; any failure returns {'date': ''}
ReadSummary ==
    /\ xpc = "read"
    /\ IF summary.readable
       THEN /\ xpc' = "date"
            /\ result' = result
       ELSE /\ xpc' = "returned"
            /\ result' = Put(EmptyDict, "date", Str(<<>>))
    /\ UNCHANGED <<summary, attachment, comprehensive_data>>
    /\ UNCHANGED <<crawlVars, batchVars, fnVars, runVars, filterVars>>

\* one merge step: the mapping becomes d, the position becomes next
MergeStep(here, next, d) ==
    /\ xpc = here
    /\ comprehensive_data' = d
    /\ xpc' = next
    /\ UNCHANGED <<summary, attachment, result>>
    /\ UNCHANGED <<crawlVars, batchVars, fnVars, runVars, filterVars>>

StepDate ==
    MergeStep("date", "company", Put(comprehensive_data, "date", FilingDate(summary.elems)))

\* lines 1192-1194
StepCompany ==
    MergeStep("company", "income",
              Update(comprehensive_data, extract_comprehensive_company_info(summary.elems)))

\* lines 1196-1198
StepIncome ==
    MergeStep("income", "balance",
              Update(comprehensive_data, Section(summary.elems, income_items)))

\* lines 1200-1202
StepBalance ==
    MergeStep("balance", "cash_flow",
              Update(comprehensive_data, Section(summary.elems, balance_items)))

\* lines 1204-1206
StepCashFlow ==
    MergeStep("cash_flow", "ratios",
              Update(comprehensive_data, Section(summary.elems, cf_items)))

\* lines 1208-1210
StepRatios ==
    MergeStep("ratios", "dividends",
              Update(comprehensive_data, Section(summary.elems, ratio_items)))

\* lines 1212-1214
StepDividends ==
    MergeStep("dividends", "other",
              Update(comprehensive_data, Section(summary.elems, dividend_items)))

\* lines 1216-1218
StepOther ==
    MergeStep("other", "tse_all",
              Update(comprehensive_data, Section(summary.elems, other_items)))

\* lines 1220-1228: the Summary catch-all, then the test of attachment_dir_path
StepTseAll ==
    MergeStep("tse_all", IF attachment.present THEN "detailed" ELSE "return",
              AddMissing(comprehensive_data, extract_all_tse_items(summary.elems)))

\* lines 1229-1230
StepDetailed ==
    MergeStep("detailed", "jppfs_all",
              Update(comprehensive_data, extract_detailed_financial_data(attachment.files)))

\* lines 1232-1237
StepJppfsAll ==
    MergeStep("jppfs_all", "return",
              AddMissing(comprehensive_data, extract_all_jppfs_items(attachment.files)))

\* line 1239
Return ==
    /\ xpc = "return"
    /\ result' = comprehensive_data
    /\ xpc' = "returned"
    /\ UNCHANGED <<summary, attachment, comprehensive_data>>
    /\ UNCHANGED <<crawlVars, batchVars, fnVars, runVars, filterVars>>

ExtractNext ==
    \/ ReadSummary \/ StepDate \/ StepCompany \/ StepIncome \/ StepBalance
    \/ StepCashFlow \/ StepRatios \/ StepDividends \/ StepOther \/ StepTseAll
    \/ StepDetailed \/ StepJppfsAll \/ Return

(***************************************************************************)
(* extract_comprehensive_data_from_directory (lines 1385-1438).            *)
(***************************************************************************)
\* dict.get('company_name') is truthy: the key is there with a non-empty string
HasCompanyName(d) == "company_name" \in DOMAIN d /\ d["company_name"] # Str(<<>>)

\* lines 1415-1425: the mapping extracted for a company directory, as a list
\* of one, or no mapping when Summary or its document is missing
Extracted(e) ==
    IF e.is_dir /\ e.summary.present /\ e.summary.files # <<>>
    THEN <<extract_comprehensive_financial_data(
               e.summary.files[1],
               IF e.attachment.present THEN e.attachment ELSE NoAttachment)>>
    ELSE <<>>

\* mutant: every extracted mapping is kept, with or without a company name
AfterEntry_KeepAll(list, e) == list \o Extracted(e)

\* lines 1407-1435 for one entry: the list after it
AfterEntry(list, e) == list \o SelectSeq(Extracted(e), HasCompanyName)

\* the list the aggregator returns for the entries es, in their order
RECURSIVE Aggregated(_, _)
Aggregated(list, es) ==
    IF es = <<>> THEN list ELSE Aggregated(AfterEntry(list, Head(es)), Tail(es))

\* one iteration of the loop of line 1406
ProcessEntry ==
    /\ bpc = "loop"
    /\ next_entry <= Len(entries)
    /\ all_financial_data' = AfterEntry(all_financial_data, entries[next_entry])
    /\ next_entry' = next_entry + 1
    /\ UNCHANGED <<bpc, entries, all_items, csv>>
    /\ UNCHANGED <<crawlVars, extractVars, fnVars, runVars, filterVars>>

\* lines 1437-1438
ReturnAll ==
    /\ bpc = "loop"
    /\ next_entry > Len(entries)
    /\ bpc' = "returned"
    /\ UNCHANGED <<entries, next_entry, all_financial_data, all_items, csv>>
    /\ UNCHANGED <<crawlVars, extractVars, fnVars, runVars, filterVars>>

(***************************************************************************)
(* output_financial_data_to_csv (lines 1571-1640).                         *)
(***************************************************************************)
\* the keys of the filings of this model, as characters
Spelling(k) ==
    CASE k = "date" -> <<"d", "a", "t", "e">>
      [] k = "company_name" -> KeyCompanyName
      [] k = "securities_code" ->
           <<"s", "e", "c", "u", "r", "i", "t", "i", "e", "s", "_", "c", "o", "d", "e">>
      [] k = "document_name" ->
           <<"d", "o", "c", "u", "m", "e", "n", "t", "_", "n", "a", "m", "e">>
      [] k = "representative_title" ->
           <<"r", "e", "p", "r", "e", "s", "e", "n", "t", "a", "t", "i", "v", "e", "_",
             "t", "i", "t", "l", "e">>
      [] k = "representative_name" ->
           <<"r", "e", "p", "r", "e", "s", "e", "n", "t", "a", "t", "i", "v", "e", "_",
             "n", "a", "m", "e">>
      [] k = "inquiries_title" ->
           <<"i", "n", "q", "u", "i", "r", "i", "e", "s", "_", "t", "i", "t", "l", "e">>
      [] k = "inquiries_name" ->
           <<"i", "n", "q", "u", "i", "r", "i", "e", "s", "_", "n", "a", "m", "e">>
      [] k = "tel" -> KeyTel
      [] k = "url" -> <<"u", "r", "l">>
      [] k = "net_sales_current" -> KeyNetSalesCurrent
      [] k = "cash_and_deposits_current" ->
           <<"c", "a", "s", "h", "_", "a", "n", "d", "_", "d", "e", "p", "o", "s", "i", "t", "s",
             "_", "c", "u", "r", "r", "e", "n", "t">>
      [] k = "CompanyName_currentyear" ->
           <<"C", "o", "m", "p", "a", "n", "y", "N", "a", "m", "e", "_",
             "c", "u", "r", "r", "e", "n", "t", "y", "e", "a", "r">>
      [] k = "NetSales_current" ->
           <<"N", "e", "t", "S", "a", "l", "e", "s", "_", "c", "u", "r", "r", "e", "n", "t">>
      [] k = "CashAndDeposits_current" ->
           <<"C", "a", "s", "h", "A", "n", "d", "D", "e", "p", "o", "s", "i", "t", "s", "_",
             "c", "u", "r", "r", "e", "n", "t">>

\* the characters of keys in code point order
CharOrder == Digits \o UpperLetters \o <<"_">> \o LowerLetters
Ord(c) == CHOOSE i \in 1..Len(CharOrder) : CharOrder[i] = c

\* s < t as Python compares strings
Before(s, t) ==
    \E i \in 1..Len(t) :
        /\ \A j \in 1..(i - 1) : j <= Len(s) /\ s[j] = t[j]
        /\ \/ i = Len(s) + 1
           \/ i <= Len(s) /\ Ord(s[i]) < Ord(t[i])

\* sorted(keys)
RECURSIVE SortedKeys(_)
SortedKeys(S) ==
    IF S = {} THEN <<>>
    ELSE LET k == CHOOSE x \in S : \A o \in S \ {x} : Before(Spelling(x), Spelling(o))
         IN <<k>> \o SortedKeys(S \ {k})

\* line 1605
excluded_keys == {"date", "securities_code", "company_name"}

\* data.get(key, '')
Get(data, key) == IF key \in DOMAIN data THEN data[key] ELSE Str(<<>>)

\* mutant: empty values and non-financial keys are written as well
IsWritten_Everything(data, all, key) == TRUE

\* lines 1613-1617: the key gets a row
IsWritten(data, all, key) ==
    /\ data[key] # Str(<<>>)
    /\ all \/ is_financial_item(Spelling(key))

\* lines 1619-1625
CsvRow(data, key) ==
    [date |-> Get(data, "date"), securities_code |-> Get(data, "securities_code"),
     company_name |-> Get(data, "company_name"), category |-> key, data |-> data[key]]

\* lines 1600-1626 for one filing
FilingRows(data, all) ==
    LET remaining_keys == SortedKeys(DOMAIN data \ excluded_keys)
        written == SelectSeq(remaining_keys, LAMBDA k : IsWritten(data, all, k))
    IN [i \in 1..Len(written) |-> CsvRow(data, written[i])]

\* lines 1599-1626
RECURSIVE AllRows(_, _)
AllRows(list, all) ==
    IF list = <<>> THEN <<>>
    ELSE FilingRows(Head(list), all) \o AllRows(Tail(list), all)

\* lines 1581-1626: nothing is written for an empty list
CsvOf(list, all) ==
    IF list = <<>> THEN NoCsv ELSE [written |-> TRUE, rows |-> AllRows(list, all)]

\* line 2023 of main
OutputCsv ==
    /\ bpc = "returned"
    /\ csv' = CsvOf(all_financial_data, all_items)
    /\ bpc' = "written"
    /\ UNCHANGED <<entries, next_entry, all_financial_data, all_items>>
    /\ UNCHANGED <<crawlVars, extractVars, fnVars, runVars, filterVars>>

BatchNext == ProcessEntry \/ ReturnAll \/ OutputCsv

(***************************************************************************)
(* One call of a text function.                                            *)
(***************************************************************************)
ParseValue ==
    /\ fn = "none"
    /\ fn' = "parse"
    /\ value' = parse_financial_value(Elem(Tag("tse-ed-t", "NetSales"), CYD, sign, text))
    /\ UNCHANGED <<text, sign, formatted, financial>>
    /\ UNCHANGED <<crawlVars, extractVars, batchVars, runVars, filterVars>>

FormatDate ==
    /\ fn = "none"
    /\ fn' = "date"
    /\ formatted' = format_date_to_iso(text)
    /\ UNCHANGED <<text, sign, value, financial>>
    /\ UNCHANGED <<crawlVars, extractVars, batchVars, runVars, filterVars>>

Classify ==
    /\ fn = "none"
    /\ fn' = "classify"
    /\ financial' = is_financial_item(text)
    /\ UNCHANGED <<text, sign, value, formatted>>
    /\ UNCHANGED <<crawlVars, extractVars, batchVars, runVars, filterVars>>

FnNext == ParseValue \/ FormatDate \/ Classify

(***************************************************************************)
(* download_xbrl_file (lines 514-579).                                     *)
(***************************************************************************)
\* c.isalnum() or c in (' ', '-', '_')
IsAlnum(c) == IsDigit(c) \/ \E i \in 1..26 : UpperLetters[i] = c \/ LowerLetters[i] = c
IsSafeChar(c) == IsAlnum(c) \/ c \in {" ", "-", "_"}
\* line 538
SafeName(name) == RStrip(SelectSeq(name, IsSafeChar))

\* if company_name and code
IsNamed(rec) == rec.name # <<>> /\ rec.code # <<>>

\* lines 534-543: the name of the saved file
FileName(rec) ==
    IF IsNamed(rec)
    THEN [code |-> rec.code, safe_name |-> SafeName(rec.name), stem |-> rec.xbrl_url.id]
    ELSE [code |-> <<>>, safe_name |-> <<>>, stem |-> rec.xbrl_url.id]

\* line 559: the extraction directory
ExtractDir(rec) ==
    IF IsNamed(rec)
    THEN [code |-> rec.code, safe_name |-> SafeName(rec.name), stem |-> 0]
    ELSE [code |-> <<>>, safe_name |-> <<>>, stem |-> rec.xbrl_url.id]

\* mkdir(exist_ok=True) of directory n, then the documents docs unpacked into
\* its XBRLData/Summary next to what is there
Unpacked(dirs, n, docs) ==
    [m \in DOMAIN dirs \cup {n} |->
        IF m = n THEN (IF n \in DOMAIN dirs THEN dirs[n] ELSE {}) \cup docs ELSE dirs[m]]

\* the call for one record: what it returns ("None", "path", or "raise" for an
\* exception it does not catch) and save_dir after it
download_xbrl_file(rec, pkg, dir) ==
    LET made == [dir EXCEPT !.exists = TRUE]
        saved == [made EXCEPT !.files = @ \cup {FileName(rec)}]
        docs == IF pkg.kind = "archive"
                THEN {[file |-> rec.xbrl_url.id, doc |-> pkg.doc]} ELSE {}
        unpacked == [saved EXCEPT !.dirs = Unpacked(@, ExtractDir(rec), docs)]
    IN  IF pkg.kind = "transport_error" THEN [result |-> "None", save_dir |-> made]
        ELSE IF ~rec.xbrl_url.zip THEN [result |-> "path", save_dir |-> saved]
        ELSE IF pkg.kind = "damaged" THEN [result |-> "raise", save_dir |-> unpacked]
        ELSE [result |-> "path", save_dir |-> unpacked]

(***************************************************************************)
(* The extract-all branch of main (lines 1964-2052).                       *)
(***************************************************************************)
\* lines 1984-1998: one iteration of the download loop; an exception that
\* download_xbrl_file lets through ends main
RunDownload ==
    /\ rpc = "download"
    /\ rec_idx <= Len(download_records)
    /\ LET out == download_xbrl_file(download_records[rec_idx], portal[rec_idx], save_dir) IN
       /\ save_dir' = out.save_dir
       /\ results' = Append(results, out.result)
       /\ success_count' = IF out.result = "path" THEN success_count + 1 ELSE success_count
       /\ rec_idx' = IF out.result = "raise" THEN rec_idx ELSE rec_idx + 1
       /\ rpc' = IF out.result = "raise" THEN "crashed"
                 ELSE IF rec_idx < Len(download_records) THEN "download" ELSE "extract"
    /\ UNCHANGED <<download_records, portal, keep_files, financial_data_list, run_csv>>
    /\ UNCHANGED <<crawlVars, extractVars, batchVars, fnVars, filterVars>>

\* the entry iterdir() gives for a directory with the Summary documents docs:
\* glob('*-ixbrl.htm') lists them in any order, the first is parsed
EntriesOf(docs) ==
    IF docs = {} THEN {CompanyDir(NoSummary, NoAttachment)}
    ELSE {CompanyDir([present |-> TRUE, files |-> <<d.doc>>], NoAttachment) : d \in docs}

\* the directories of save_dir as iterdir() can list them (the saved files
\* are entries too, is_dir() is false for them and nothing is done)
RECURSIVE ListingsOf(_, _)
ListingsOf(dirs, names) ==
    IF names = {} THEN {<<>>}
    ELSE UNION {{<<e>> \o rest : e \in EntriesOf(dirs[n]),
                                 rest \in ListingsOf(dirs, names \ {n})} : n \in names}
Listings(dir) == IF dir.exists THEN ListingsOf(dir.dirs, DOMAIN dir.dirs) ELSE {<<>>}

\* lines 2007-2011: the aggregator over save_dir; main returns when the list
\* is empty
RunExtract ==
    /\ rpc = "extract"
    /\ \E es \in Listings(save_dir) :
         /\ financial_data_list' = Aggregated(<<>>, es)
         /\ rpc' = IF financial_data_list' = <<>> THEN "done" ELSE "csv"
    /\ UNCHANGED <<download_records, portal, keep_files, save_dir, rec_idx, results,
                   success_count, run_csv>>
    /\ UNCHANGED <<crawlVars, extractVars, batchVars, fnVars, filterVars>>

\* args.all_items without --all-items
DefaultAllItems == FALSE

\* lines 2013-2023
RunOutputCsv ==
    /\ rpc = "csv"
    /\ run_csv' = CsvOf(financial_data_list, DefaultAllItems)
    /\ rpc' = "cleanup"
    /\ UNCHANGED <<download_records, portal, keep_files, save_dir, rec_idx, results,
                   success_count, financial_data_list>>
    /\ UNCHANGED <<crawlVars, extractVars, batchVars, fnVars, filterVars>>

\* lines 2025-2052: shutil.rmtree(save_dir) unless --keep-files
RunCleanup ==
    /\ rpc = "cleanup"
    /\ save_dir' = IF keep_files THEN save_dir ELSE NoSaveDir
    /\ rpc' = "done"
    /\ UNCHANGED <<download_records, portal, keep_files, rec_idx, results, success_count,
                   financial_data_list, run_csv>>
    /\ UNCHANGED <<crawlVars, extractVars, batchVars, fnVars, filterVars>>

RunNext == RunDownload \/ RunExtract \/ RunOutputCsv \/ RunCleanup

(***************************************************************************)
(* filter_records (lines 582-624).  "keyword in title" raises TypeError    *)
(* when title is None.                                                     *)
(***************************************************************************)
\* lines 609-612
exclude_keywords == {
    Teisei, Shusei,
    <<"U+30C7", "U+30FC", "U+30BF">> \o Teisei,
    <<"U+6570", "U+5024", "U+30C7", "U+30FC", "U+30BF">> \o Teisei,
    <<"U+4E00", "U+90E8">> \o Teisei,
    <<"U+5185", "U+5BB9">> \o Teisei,
    <<"U+8A18", "U+8F09", "U+5185", "U+5BB9">> \o Teisei}

\* lines 602-616 for a record with a title
KessanKept(r) ==
    /\ IsSubstring(Kessan, r.title.s)
    /\ ~(IsSubstring(ReitFw, r.title.s) \/ IsSubstring(ReitKana, r.title.s)
          \/ IsSubstring(ReitAscii, r.title.s))
    /\ ~\E k \in exclude_keywords : IsSubstring(k, r.title.s)

\* line 622 for a record with a title
GyosekiKept(r) ==
    IsSubstring(GyosekiYoso, r.title.s) \/ IsSubstring(GyosekiNoShusei, r.title.s)

TitleIsNone(r) == r.title.none

filter_records(records, type) ==
    IF type = "all" THEN FilterReturned(records)
    ELSE IF type = "kessan"
    THEN (IF SelectSeq(records, TitleIsNone) # <<>> THEN FilterRaised
          ELSE FilterReturned(SelectSeq(records, KessanKept)))
    ELSE IF type = "gyoseki"
    THEN (IF SelectSeq(records, TitleIsNone) # <<>> THEN FilterRaised
          ELSE FilterReturned(SelectSeq(records, GyosekiKept)))
    ELSE FilterReturned(records)

\* line 1944: the call
ApplyFilter ==
    /\ fpc = "call"
    /\ filtered' = filter_records(listed_records, filter_type)
    /\ fpc' = "done"
    /\ UNCHANGED <<listed_records, filter_type>>
    /\ UNCHANGED <<crawlVars, extractVars, batchVars, fnVars, runVars>>

FilterNext == ApplyFilter

vars == <<crawlVars, extractVars, batchVars, fnVars, runVars, filterVars>>

\* one crawl of a date
Init == CrawlInit /\ ExtractIdle /\ BatchIdle /\ FnIdle /\ RunIdle /\ FilterIdle
Next == CrawlNext
Spec == Init /\ [][Next]_vars

\* the crawl as the interpreter runs it: a sequential function whose next
\* statement is always executed, every request returning or raising
SpecFair == Init /\ [][Next]_vars /\ WF_vars(Next)

\* the extraction of one filing
InitExtract == CrawlInit /\ ExtractInit /\ BatchIdle /\ FnIdle /\ RunIdle /\ FilterIdle
NextExtract == ExtractNext
SpecExtract == InitExtract /\ [][NextExtract]_vars

\* the aggregation of one download directory
InitBatch == CrawlInit /\ ExtractIdle /\ BatchInit /\ FnIdle /\ RunIdle /\ FilterIdle
NextBatch == BatchNext
SpecBatch == InitBatch /\ [][NextBatch]_vars

\* one call of a text function
InitFn == CrawlInit /\ ExtractIdle /\ BatchIdle /\ FnInit /\ RunIdle /\ FilterIdle
NextFn == FnNext
SpecFn == InitFn /\ [][NextFn]_vars

\* an extract-all run of main
InitRun == CrawlInit /\ ExtractIdle /\ BatchIdle /\ FnIdle /\ RunInit /\ FilterIdle
NextRun == RunNext
SpecRun == InitRun /\ [][NextRun]_vars

\* filter_records applied to a record list
InitFilter == CrawlInit /\ ExtractIdle /\ BatchIdle /\ FnIdle /\ RunIdle /\ FilterInit
NextFilter == FilterNext
SpecFilter == InitFilter /\ [][NextFilter]_vars

(***************************************************************************)
(* What the log says about a crawl.                                        *)
(***************************************************************************)
IsList(e) == e.op = "list"
ListLog == SelectSeq(log, IsList)
LastList == ListLog[Len(ListLog)]

\* the records fetch_xbrl_list made of a logged listing request
YieldOf(e) == fetch_xbrl_list(e.resp, e.page)

\* the XBRL records of all fetched pages, in page-then-row order
RECURSIVE FetchedRecords(_)
FetchedRecords(l) ==
    IF l = <<>> THEN <<>> ELSE YieldOf(Head(l)) \o FetchedRecords(Tail(l))

\* the records of the fetched pages numbered below p
RECURSIVE FetchedBefore(_, _)
FetchedBefore(l, p) ==
    IF l = <<>> THEN <<>>
    ELSE (IF Head(l).page < p THEN YieldOf(Head(l)) ELSE <<>>) \o FetchedBefore(Tail(l), p)

\* the banner request of the log (entry 2 when there is one)
BannerDone == Len(log) >= 2
BannerEntry == log[2]

(***************************************************************************)
(* C1: the returned list holds every XBRL URL of the fetched pages exactly *)
(* once, the record kept for a URL is its first occurrence in              *)
(* page-then-row order, and the duplicate counter is the number of         *)
(* accumulated records minus the number of returned records.               *)
(***************************************************************************)
C1_DedupFirstOccurrence ==
    pc = "done" =>
        LET all == FetchedRecords(ListLog)
            out == ret.records
        IN /\ UrlsOf(out) = UrlsOf(all)
           /\ \A i, j \in 1..Len(out) : out[i].xbrl_url = out[j].xbrl_url => i = j
           /\ \A i \in 1..Len(out) :
                \E j \in 1..Len(all) :
                    /\ all[j] = out[i]
                    /\ \A k \in 1..(j - 1) : all[k].xbrl_url # out[i].xbrl_url
           /\ duplicates_removed = Len(all) - Len(out)

\* two pages share one URL: one record, counter 1
C1_Witness ==
    /\ pc = "done"
    /\ Len(ListLog) = 2
    /\ Len(all_xbrl_records) = 2
    /\ all_xbrl_records[1].xbrl_url = all_xbrl_records[2].xbrl_url
    /\ all_xbrl_records[1].page = 1 /\ all_xbrl_records[2].page = 2
    /\ ret.records = <<all_xbrl_records[1]>>
    /\ duplicates_removed = 1

(***************************************************************************)
(* C2: the crawl stops before its computed last page only when a page      *)
(* yielded zero table rows or was not found (a transport failure, which    *)
(* is the subject of C4, is let through here as well); a page that has     *)
(* rows of which none carries an XBRL link does not end the crawl.         *)
(***************************************************************************)
C2_StopsOnlyAtEndOfData ==
    (pc = "done" /\ total_pages > 0 /\ page < total_pages) =>
        \/ LastList.resp.kind \in {"notfound", "error"}
        \/ LastList.resp.rows = <<>>

(***************************************************************************)
(* C3: no page is requested after the first page that yields no records    *)
(* (every request of a page p > 1, and the banner request, comes after     *)
(* requests of all lower pages that yielded records); with content on      *)
(* pages 1 and 2 and no record on page 3 the crawl ends with exactly the   *)
(* records of pages 1 and 2, the request of page 3 being its last.         *)
(***************************************************************************)
C3_NoRequestAfterEmptyPage ==
    /\ \A i \in 1..Len(log) :
         (log[i].op \in {"list", "banner"} /\ (log[i].op = "banner" \/ log[i].page > 1)) =>
            \A q \in 1..(IF log[i].op = "banner" THEN 1 ELSE log[i].page - 1) :
                \E j \in 1..(i - 1) :
                    /\ log[j].op = "list"
                    /\ log[j].page = q
                    /\ YieldOf(log[j]) # <<>>
    /\ \A i, j \in 1..Len(ListLog) : i < j => ListLog[i].page < ListLog[j].page
    /\ (/\ pc = "done"
        /\ Len(ListLog) >= 3
        /\ ListLog[3].page = 3
        /\ YieldOf(ListLog[3]) = <<>>)
       => /\ ret.records = DedupRecords(YieldOf(ListLog[1]) \o YieldOf(ListLog[2]))
          /\ log[Len(log)] = ListLog[3]
          /\ Len(ListLog) = 3

\* pages 1 and 2 with records, page 3 without, more pages computed
C3_Witness ==
    /\ pc = "done"
    /\ Len(ListLog) = 3
    /\ ListLog[3].page = 3
    /\ ListLog[3].resp = [kind |-> "ok", rows |-> <<>>]
    /\ total_pages > 3
    /\ Len(ret.records) = 2

(***************************************************************************)
(* C4: a transport error on page k ends the crawl with the records of      *)
(* pages 1..k-1 and with a result that is annotated as partial.            *)
(***************************************************************************)
C4_TransportErrorIsPartial ==
    (pc = "done" /\ LastList.resp.kind = "error") =>
        /\ log[Len(log)] = LastList
        /\ ret.records = DedupRecords(FetchedBefore(ListLog, LastList.page))
        /\ ret.partial

(***************************************************************************)
(* C5: the page count is ceil(n/100) when the banner states a total of     *)
(* n >= 1 (100 gives 1, 101 gives 2, 1048 gives 11) and 20 when the banner *)
(* is missing, unparsable, states 0 or its request fails; after the banner *)
(* request the crawl always goes on.                                       *)
(***************************************************************************)
\* the total the banner states: that of the first string that has one
Stated(ps) ==
    IF \E i \in 1..Len(ps) : ps[i] # NoMatch
    THEN ps[CHOOSE i \in 1..Len(ps) :
                ps[i] # NoMatch /\ \A k \in 1..(i - 1) : ps[k] = NoMatch]
    ELSE NoMatch

\* ceil(n/100): the least k with 100 k >= n
Ceil100(n) == CHOOSE k \in 0..n : 100 * k >= n /\ \A m \in 0..(k - 1) : 100 * m < n

C5_PageCount ==
    BannerDone =>
        LET n == Stated(BannerEntry.banner) IN
        /\ pc \in {"loop_first", "loop", "dedup", "done"}
        /\ (BannerEntry.resp.kind = "ok" /\ n >= 1) => total_pages = Ceil100(n)
        /\ (BannerEntry.resp.kind = "ok" /\ n = 100) => total_pages = 1
        /\ (BannerEntry.resp.kind = "ok" /\ n = 101) => total_pages = 2
        /\ (BannerEntry.resp.kind = "ok" /\ n = 1048) => total_pages = 11
        /\ (BannerEntry.resp.kind # "ok" \/ n < 1) => total_pages = 20

\* an unparsable string first, then a banner of 1048: 11 pages
C5_Witness ==
    /\ BannerDone
    /\ BannerEntry.banner = <<NoMatch, 1048>>
    /\ total_pages = 11

(***************************************************************************)
(* C6: the pages statistic equals the number of pages that were fetched    *)
(* and yielded records.                                                    *)
(***************************************************************************)
PagesWithRecords == Cardinality({i \in 1..Len(ListLog) : YieldOf(ListLog[i]) # <<>>})

C6_PagesScanned ==
    (pc = "done" /\ total_pages > 0) => actual_pages = PagesWithRecords

(***************************************************************************)
(* C7: once a key has a value in the profile, no later merge step changes  *)
(* it: every step only adds keys that are not present yet.                 *)
(***************************************************************************)
C7_FirstWriterWins ==
    [][\A k \in DOMAIN comprehensive_data :
          /\ k \in DOMAIN comprehensive_data'
          /\ comprehensive_data'[k] = comprehensive_data[k]]_vars

(***************************************************************************)
(* C8: every key of a returned profile other than date, securities_code    *)
(* and company_name has a non-empty value; a concept that was not observed *)
(* is absent, never present with the empty string.                         *)
(***************************************************************************)
IdentityKeys == {"date", "securities_code", "company_name"}

C8_PresentMeansNonEmpty ==
    xpc = "returned" =>
        \A k \in DOMAIN result \ IdentityKeys : result[k] # Str(<<>>)

(***************************************************************************)
(* C9: every returned mapping contains date, securities_code and           *)
(* company_name, also when reading or parsing the Summary document fails.  *)
(***************************************************************************)
C9_IdentityKeysPresent ==
    xpc = "returned" => IdentityKeys \subseteq DOMAIN result

(***************************************************************************)
(* C10: all non-empty company-info values of a profile come from the tags  *)
(* of one dialect, the first in table order of which a tag is present in   *)
(* the document; a field whose tag of that dialect is absent stays empty,  *)
(* whatever a later dialect holds.                                         *)
(***************************************************************************)
DialectTags(d) == {it.name : it \in company_item_mappings[d]}
DialectPresent(doc, d) == \E i \in 1..Len(doc) : doc[i].name \in DialectTags(d)
FirstDialect(doc) ==
    IF \E d \in 1..Len(company_item_mappings) : DialectPresent(doc, d)
    THEN Min({d \in 1..Len(company_item_mappings) : DialectPresent(doc, d)})
    ELSE 0

C10_SingleDialect ==
    (xpc = "returned" /\ summary.readable) =>
        LET doc == summary.elems
            D == FirstDialect(doc)
        IN \A k \in CompanyKeys :
            /\ k \in DOMAIN result
            /\ result[k].kind = "str"
            /\ result[k] # Str(<<>>) =>
                 /\ D # 0
                 /\ \E i \in 1..Len(doc) :
                      /\ \E it \in company_item_mappings[D] : it.key = k /\ it.name = doc[i].name
                      /\ result[k].s \in {Strip(doc[i].text), RemoveWhitespace(Strip(doc[i].text))}
            /\ (D # 0 /\ ~\E i \in 1..Len(doc) :
                            \E it \in company_item_mappings[D] : it.key = k /\ it.name = doc[i].name)
                 => result[k] = Str(<<>>)

\* the general dialect gives the name and has no Tel; the REIT Tel is not taken
C10_Witness ==
    /\ xpc = "returned"
    /\ summary.readable
    /\ \E i \in 1..Len(summary.elems) : summary.elems[i].name = Tag("tse-ed-t", "CompanyName")
    /\ \E i \in 1..Len(summary.elems) :
         /\ summary.elems[i].name = Tag("tse-re-t", "Tel")
         /\ Strip(summary.elems[i].text) # <<>>
    /\ result["company_name"] = Str(<<"A">>)
    /\ result["tel"] = Str(<<>>)

(***************************************************************************)
(* C11: the aggregator returns exactly the profiles of the company         *)
(* directories whose company_name resolved to a non-empty string, in the   *)
(* order of the entries; an entry that is no directory, has no Summary     *)
(* directory, has no matching document, or whose profile has an empty or   *)
(* missing company_name is left out, and the entries after it are still    *)
(* processed.                                                              *)
(***************************************************************************)
HasDocument(e) == e.is_dir /\ e.summary.present /\ Len(e.summary.files) >= 1
ProfileOf(e) == extract_comprehensive_financial_data(e.summary.files[1], e.attachment)
NameResolved(e) ==
    /\ HasDocument(e)
    /\ "company_name" \in DOMAIN ProfileOf(e)
    /\ ProfileOf(e)["company_name"].kind = "str"
    /\ Len(ProfileOf(e)["company_name"].s) >= 1

\* the profiles of the entries of es whose name resolved, in order
RECURSIVE ResolvedProfiles(_)
ResolvedProfiles(es) ==
    IF es = <<>> THEN <<>>
    ELSE (IF NameResolved(Head(es)) THEN <<ProfileOf(Head(es))>> ELSE <<>>)
         \o ResolvedProfiles(Tail(es))

C11_OnlyResolvedNames ==
    /\ all_financial_data = ResolvedProfiles(SubSeq(entries, 1, next_entry - 1))
    /\ bpc \in {"returned", "written"} =>
         /\ next_entry = Len(entries) + 1
         /\ \A i \in 1..Len(all_financial_data) :
              all_financial_data[i]["company_name"] # Str(<<>>)

\* a filing without a name comes first, the filing after it is still returned
C11_Witness ==
    /\ bpc = "returned"
    /\ Len(entries) = 2
    /\ HasDocument(entries[1]) /\ ~NameResolved(entries[1])
    /\ NameResolved(entries[2])
    /\ all_financial_data = <<ProfileOf(entries[2])>>

(***************************************************************************)
(* C12: a Summary document without any tagged element (and no Attachment   *)
(* directory) gives a profile whose only key is date.                      *)
(***************************************************************************)
C12_EmptyDocumentOnlyDate ==
    (xpc = "returned" /\ summary.readable /\ summary.elems = <<>> /\ ~attachment.present)
        => DOMAIN result = {"date"}

(***************************************************************************)
(* C13: _parse_financial_value always returns: None for a text that, with  *)
(* the thousands separators removed, is empty, is the hyphen, is the       *)
(* full-width dash or is not a number, and the number otherwise; "1,234"   *)
(* gives 1234 and, with the sign attribute "-", -1234.                     *)
(***************************************************************************)
Cleaned(t) == RemoveCommas(Strip(t))

\* u is an optional sign followed by one or more decimal digits
SignedDigits(u) ==
    \E k \in 0..1 :
        /\ Len(u) > k
        /\ k = 1 => u[1] \in {"+", "-"}
        /\ \A i \in (k + 1)..Len(u) : IsDigit(u[i])

\* a number as float() reads it: blanks around it are dropped
IsNumberText(t) == SignedDigits(Strip(t))
NumberOf(t) ==
    LET u == Strip(t) IN
    IF u[1] = "-" THEN 0 - DigitsValue(Tail(u))
    ELSE IF u[1] = "+" THEN DigitsValue(Tail(u))
    ELSE DigitsValue(u)

C13_ParseIsTotal ==
    fn = "parse" =>
        /\ value.kind \in {"num", "none"}
        /\ Cleaned(text) \in {<<>>, <<"-">>, <<FwDash>>} => value = NoneVal
        /\ ~IsNumberText(Cleaned(text)) => value = NoneVal
        /\ IsNumberText(Cleaned(text)) =>
             value = Num(IF sign = "-" THEN 0 - NumberOf(Cleaned(text))
                         ELSE NumberOf(Cleaned(text)))
        /\ (text = Text1234 /\ sign = "") => value = Num(1234)
        /\ (text = Text1234 /\ sign = "-") => value = Num(0 - 1234)

\* "1,234" with the sign attribute "-"
C13_Witness == fn = "parse" /\ text = Text1234 /\ sign = "-" /\ value = Num(0 - 1234)

(***************************************************************************)
(* C14: with the sign attribute "-" the returned number is never positive, *)
(* whether or not the text carries a minus sign of its own.                *)
(***************************************************************************)
C14_SignAttributeDecides ==
    (fn = "parse" /\ sign = "-" /\ value.kind = "num") => value.n <= 0

(***************************************************************************)
(* C15: _format_date_to_iso returns 2025-08-19 for 2025-08-19, 2025/08/19, *)
(* 20250819 and the year-month-day form with full-width or half-width      *)
(* digits, and returns the normalized input for a text that matches no     *)
(* accepted format.                                                        *)
(***************************************************************************)
\* texts that match no format: every format needs eight characters or more
NoDateFormat(t) == Len(Strip(t)) < 8 \/ t \in {DateNoDay, DateWords}

C15_DateNormalized ==
    fn = "date" =>
        /\ text \in {DateIso, DateSlash, DateCompact, DateLocal, DateLocalFw, DateSlashFw,
                     DateLocalSpaced}
             => formatted = DateIso
        /\ NoDateFormat(text) => formatted = NFKC(Strip(text))

\* the localized form in full-width digits, month without a leading zero
C15_Witness == fn = "date" /\ text = DateLocalFw /\ formatted = DateIso

(***************************************************************************)
(* C16: in both catch-all sweeps the key of a numeric fact is its local    *)
(* tag name plus the suffix of its context bucket: _current for            *)
(* current+duration, _currentyear for current+instant, _prior for          *)
(* prior+duration, _prioryear for prior+instant, _forecast for forecast,   *)
(* nothing when the bucket is unspecified.                                 *)
(***************************************************************************)
BucketYear(c) ==
    IF c.year = "CurrentYear" THEN "current"
    ELSE IF c.year \in {"PriorYear", "Prior1Year"} THEN "prior"
    ELSE IF c.year = "NextYear" THEN "forecast"
    ELSE "unspecified"

BucketSuffix(c) ==
    CASE BucketYear(c) = "current" /\ c.period = "Duration" -> "_current"
      [] BucketYear(c) = "current" /\ c.period = "Instant" -> "_currentyear"
      [] BucketYear(c) = "prior" /\ c.period = "Duration" -> "_prior"
      [] BucketYear(c) = "prior" /\ c.period = "Instant" -> "_prioryear"
      [] BucketYear(c) = "forecast" -> "_forecast"
      [] OTHER -> ""

\* the numeric facts of namespace ns in a document
NumericFacts(doc, ns) ==
    {doc[i] : i \in {j \in 1..Len(doc) :
                        doc[j].name.ns = ns /\ parse_financial_value(doc[j]) # NoneVal}}
AttachmentFacts ==
    UNION {NumericFacts(attachment.files[f].elems, "jppfs_cor") :
              f \in 1..Len(attachment.files)}

C16_SuffixByBucket ==
    (xpc = "returned" /\ summary.readable) =>
        /\ \A e \in NumericFacts(summary.elems, "tse-ed-t") :
              (e.name.local \o BucketSuffix(e.contextref)) \in DOMAIN result
        /\ \A e \in AttachmentFacts :
              (e.name.local \o BucketSuffix(e.contextref)) \in DOMAIN result

(***************************************************************************)
(* C17: a fact of a prior-year context, spelled PriorYear or Prior1Year,   *)
(* instant or duration, is never keyed by its bare local name, the key of  *)
(* an unspecified context (no context of a filing is unspecified here).    *)
(***************************************************************************)
C17_PriorSpellings ==
    (xpc = "returned" /\ summary.readable) =>
        \A e \in NumericFacts(summary.elems, "tse-ed-t") \cup AttachmentFacts :
            (BucketYear(e.contextref) = "prior" /\ e.contextref.period \in {"Instant", "Duration"})
                => e.name.local \notin DOMAIN result

(***************************************************************************)
(* C18: is_financial_item excludes a key that contains an exclusion        *)
(* keyword, whatever else it contains, includes a key that contains an     *)
(* inclusion keyword and no exclusion keyword, and excludes a key that     *)
(* contains neither, letter case being ignored; company_name, filing_date  *)
(* and tel are excluded, net_sales_current, total_assets_prior and         *)
(* operating_cash_flow_current are included.                               *)
(***************************************************************************)
\* w occurs in s at offset i, letter case ignored
OccursAt(w, s, i) == \A j \in 1..Len(w) : LowerChar(w[j]) = LowerChar(s[i + j])
ContainsCI(w, s) == \E i \in 0..(Len(s) - Len(w)) : OccursAt(w, s, i)
HasExclusionKeyword(key) ==
    \E n \in 1..Len(non_financial_keywords) : ContainsCI(non_financial_keywords[n], key)
HasInclusionKeyword(key) ==
    \E n \in 1..Len(financial_keywords) : ContainsCI(financial_keywords[n], key)

C18_ExclusionFirst ==
    fn = "classify" =>
        /\ HasExclusionKeyword(text) => ~financial
        /\ (~HasExclusionKeyword(text) /\ HasInclusionKeyword(text)) => financial
        /\ (~HasExclusionKeyword(text) /\ ~HasInclusionKeyword(text)) => ~financial
        /\ text \in {KeyCompanyName, KeyFilingDate, KeyTel} => ~financial
        /\ text \in {KeyNetSalesCurrent, KeyTotalAssetsPrior, KeyOperatingCashFlowCurrent}
             => financial

\* a key holding a keyword of each list, the exclusion keyword in capitals
C18_Witness ==
    /\ fn = "classify"
    /\ text = <<"s", "a", "l", "e", "s", "U", "R", "L">>
    /\ HasInclusionKeyword(text)
    /\ ~financial

(***************************************************************************)
(* C19: the rows of the CSV file are, filing after filing, one row per     *)
(* key that is not date, securities_code or company_name and whose value   *)
(* is not the empty string, in ascending key order; in all-items mode      *)
(* every such key has its row, in the default mode exactly those that      *)
(* is_financial_item accepts.                                              *)
(***************************************************************************)
\* the keys of a filing that get a row
RowKeys(data) ==
    {k \in DOMAIN data \ IdentityKeys :
        /\ ~(data[k].kind = "str" /\ Len(data[k].s) = 0)
        /\ all_items \/ is_financial_item(Spelling(k))}

\* rows written before those of filing i
RECURSIVE RowsBefore(_)
RowsBefore(i) ==
    IF i = 1 THEN 0
    ELSE RowsBefore(i - 1) + Cardinality(RowKeys(all_financial_data[i - 1]))

C19_RowsPerFiling ==
    (bpc = "written" /\ all_financial_data # <<>>) =>
        /\ csv.written
        /\ Len(csv.rows) = RowsBefore(Len(all_financial_data) + 1)
        /\ \A i \in 1..Len(all_financial_data) :
             LET data == all_financial_data[i]
                 keys == RowKeys(data)
                 first == RowsBefore(i)
             IN \A p \in 1..Cardinality(keys) :
                  LET row == csv.rows[first + p] IN
                  /\ row.category \in keys
                  /\ row.data = data[row.category]
                  /\ row.date = data["date"]
                  /\ row.securities_code = data["securities_code"]
                  /\ row.company_name = data["company_name"]
                  /\ p > 1 => Before(Spelling(csv.rows[first + p - 1].category),
                                     Spelling(row.category))

\* default mode, a filing with two rows and a non-empty key the classifier rejects
C19_Witness ==
    /\ bpc = "written"
    /\ ~all_items
    /\ Len(all_financial_data) = 1
    /\ "CompanyName_currentyear" \in DOMAIN all_financial_data[1]
    /\ all_financial_data[1]["CompanyName_currentyear"] = Str(<<"B">>)
    /\ Len(csv.rows) = 2
    /\ csv.rows[1].category = "NetSales_current"
    /\ csv.rows[2].category = "net_sales_current"

(***************************************************************************)
(* C20: the CSV output does not depend on the order in which the file      *)
(* system lists the company directories, the Summary documents and the     *)
(* Attachment documents: every enumeration of the same document set gives  *)
(* the same file.                                                          *)
(***************************************************************************)
\* the orders of the elements of a sequence
Orders(q) ==
    {[i \in 1..Len(q) |-> q[f[i]]] :
        f \in {g \in [1..Len(q) -> 1..Len(q)] : \A a, b \in 1..Len(q) : g[a] = g[b] => a = b}}

\* a company directory with its documents listed in another order
Relisted(e) ==
    {[is_dir |-> e.is_dir,
      summary |-> [present |-> e.summary.present, files |-> sf],
      attachment |-> [present |-> e.attachment.present, files |-> af]] :
        sf \in Orders(e.summary.files), af \in Orders(e.attachment.files)}

\* the enumerations of the document set of es
RECURSIVE RelistedAll(_)
RelistedAll(es) ==
    IF es = <<>> THEN {<<>>}
    ELSE {<<e>> \o rest : e \in Relisted(Head(es)), rest \in RelistedAll(Tail(es))}
Enumerations(es) == UNION {RelistedAll(o) : o \in Orders(es)}

C20_EnumerationIndependent ==
    bpc = "written" =>
        \A es \in Enumerations(entries) : CsvOf(Aggregated(<<>>, es), all_items) = csv

(***************************************************************************)
(* C23: within one crawl any two consecutive HTTP requests to the listing  *)
(* portal are separated by the 0.5 s delay: no request follows another     *)
(* request without a sleep between them.                                   *)
(***************************************************************************)
IsRequest(e) == e.op \in {"list", "banner"}

C23_RequestsSeparated ==
    \A i \in 1..(Len(log) - 1) : ~(IsRequest(log[i]) /\ IsRequest(log[i + 1]))

(***************************************************************************)
(* C26: a crawl ends after at most N+1 requests, N the computed page count *)
(* (20 on fallback): page 1 is requested first, the pages 2, 3, ... in     *)
(* ascending order with none skipped and none above N, and nothing is      *)
(* requested after page 1 when page 1 yields no record.                    *)
(***************************************************************************)
Requests == SelectSeq(log, IsRequest)

C26_Bounded ==
    /\ \A i \in 1..Len(ListLog) : ListLog[i].page = i
    /\ Len(Requests) <= total_pages + 1
    /\ pc \notin {"first", "banner"} /\ first_page_records # <<>> =>
           /\ total_pages >= 1
           /\ Len(ListLog) <= total_pages
    /\ Len(log) >= 1 /\ YieldOf(log[1]) = <<>> => Len(log) = 1 /\ pc = "done"
    /\ pc # "first" => IsList(log[1]) /\ log[1].page = 1

C26_TerminatesBounded == [](C26_Bounded) /\ <>(pc = "done")

\* a crawl that ended having requested every page up to the page count
C26_Witness ==
    /\ pc = "done"
    /\ total_pages = 2
    /\ Len(ListLog) = 2
    /\ Len(Requests) = 3

(***************************************************************************)
(* C24: when several elements of one catch-all sweep map to the same key,  *)
(* the sweep keeps the value of the element seen first in document order,  *)
(* in the Summary sweep as in the Attachment sweep.                        *)
(***************************************************************************)
\* the elements of the files of a directory, in reading order
RECURSIVE AllElems(_)
AllElems(files) ==
    IF files = <<>> THEN <<>> ELSE Head(files).elems \o AllElems(Tail(files))

\* every key of items has the value that the first element of namespace ns
\* storing that key gives it, Step being the sweep's handling of one element
FirstSeenKept(items, doc, ns, Step(_, _)) ==
    \A i \in 1..Len(doc) :
        LET one == IF doc[i].name.ns = ns THEN Step(EmptyDict, doc[i]) ELSE EmptyDict IN
        \A k \in DOMAIN one :
            (\A j \in 1..(i - 1) :
                doc[j].name.ns = ns => k \notin DOMAIN Step(EmptyDict, doc[j]))
                => (k \in DOMAIN items /\ items[k] = one[k])

C24_FirstSeenKept ==
    (xpc = "returned" /\ summary.readable) =>
        /\ FirstSeenKept(extract_all_tse_items(summary.elems), summary.elems,
                         "tse-ed-t", TseStep)
        /\ FirstSeenKept(extract_all_jppfs_items(attachment.files),
                         AllElems(attachment.files), "jppfs_cor", JppfsStep)

(***************************************************************************)
(* C25: a fact whose text is empty, "-" or the full-width dash is absent   *)
(* for every extraction pass: the returned mapping has no key that it      *)
(* would not have without the fact.                                        *)
(***************************************************************************)
IsPlaceholder(e) == Strip(e.text) \in {<<>>, <<"-">>, <<FwDash>>}
HasValue(e) == ~IsPlaceholder(e)

WithoutPlaceholders(file) ==
    [readable |-> file.readable, elems |-> SelectSeq(file.elems, HasValue)]
RECURSIVE FilesWithoutPlaceholders(_)
FilesWithoutPlaceholders(files) ==
    IF files = <<>> THEN <<>>
    ELSE <<[acbs01 |-> Head(files).acbs01, elems |-> SelectSeq(Head(files).elems, HasValue)]>>
         \o FilesWithoutPlaceholders(Tail(files))
AttachmentWithoutPlaceholders(att) ==
    [present |-> att.present, files |-> FilesWithoutPlaceholders(att.files)]

C25_PlaceholdersAbsent ==
    (xpc = "returned" /\ summary.readable) =>
        DOMAIN result \subseteq
            DOMAIN extract_comprehensive_financial_data(
                       WithoutPlaceholders(summary), AttachmentWithoutPlaceholders(attachment))

(***************************************************************************)
(* What a run has done.                                                    *)
(***************************************************************************)
\* the run has ended: main returned, or an exception left it
RunEnded == rpc \in {"done", "crashed"}
\* record i was attempted and download_xbrl_file returned a path for it
Downloaded(i) == i <= Len(results) /\ results[i] = "path"
\* the profile of the Summary document that the package of record i holds
ServedProfile(i) == extract_comprehensive_financial_data(portal[i].doc, NoAttachment)
\* record i was downloaded and its package holds a Summary document
Unpackable(i) ==
    Downloaded(i) /\ download_records[i].xbrl_url.zip /\ portal[i].kind = "archive"

(***************************************************************************)
(* C21: no failure on one filing ends an extract-all run: when the run has *)
(* ended, every record of the download list was attempted, in order, and   *)
(* the aggregator went over the company directories.                       *)
(***************************************************************************)
C21_BatchNeverEnds ==
    RunEnded => (Len(results) = Len(download_records) /\ rpc = "done")

(***************************************************************************)
(* C22: when the body downloaded for a record is a corrupt archive, the    *)
(* saved file still exists when the run ends and the record is not counted *)
(* as a successful download.                                               *)
(***************************************************************************)
IsCorrupt(i) == download_records[i].xbrl_url.zip /\ portal[i].kind = "bad_zip"

C22_CorruptRetainedAndFailed ==
    rpc = "done" =>
        \A i \in 1..Len(download_records) :
            IsCorrupt(i) =>
                /\ FileName(download_records[i]) \in save_dir.files
                /\ ~Downloaded(i)

(***************************************************************************)
(* C27: every profile of a written CSV is the profile of a package that    *)
(* this run downloaded for a record of its download list.                  *)
(***************************************************************************)
C27_OnlyThisRun ==
    run_csv.written =>
        \A k \in 1..Len(financial_data_list) :
            \E i \in 1..Len(download_records) :
                Unpackable(i) /\ financial_data_list[k] = ServedProfile(i)

(***************************************************************************)
(* C28: two downloaded records are never unpacked into the same directory, *)
(* and in a run that found no earlier directory the number of profiles is  *)
(* the number of downloaded filings whose company name resolves.           *)
(***************************************************************************)
C28_OwnDirectory ==
    /\ \A i, j \in 1..Len(download_records) :
           (i < j /\ Unpackable(i) /\ Unpackable(j))
               => ExtractDir(download_records[i]) # ExtractDir(download_records[j])
    /\ (rpc = "csv" /\ StaleName \notin DOMAIN save_dir.dirs) =>
           Len(financial_data_list) =
               Cardinality({i \in 1..Len(download_records) :
                               Unpackable(i) /\ HasCompanyName(ServedProfile(i))})

(***************************************************************************)
(* C29: when a run without --keep-files has returned, xbrl_data/<date> no  *)
(* longer exists, also when the extraction gave no profile.                *)
(***************************************************************************)
C29_DirectoryRemoved ==
    (rpc = "done" /\ ~keep_files) => ~save_dir.exists

(***************************************************************************)
(* C30: filter_records never raises; for kessan it returns, in input       *)
(* order, exactly the records whose title contains the earnings-report     *)
(* keyword and neither a REIT marker nor a correction keyword, a record    *)
(* without a title being filtered out.                                     *)
(***************************************************************************)
ReitMarkers == {ReitFw, ReitKana, ReitAscii}
IsEarningsReport(r) ==
    /\ ~r.title.none
    /\ IsSubstring(Kessan, r.title.s)
    /\ \A w \in ReitMarkers \cup exclude_keywords : ~IsSubstring(w, r.title.s)

C30_FilterTotal ==
    fpc = "done" =>
        /\ ~filtered.raised
        /\ filter_type = "kessan" =>
               filtered.records = SelectSeq(listed_records, IsEarningsReport)
====
